---------------------------- MODULE Spec2Model ----------------------------
(***************************************************************************)
(* Nuvei REST API 1.0 emulator: the scenario execution engine              *)
(* (executeStep / executeScenario) and the worker's webhook store          *)
(* (handleWebhook, storeInternalDmn, handleGetWebhooks,                    *)
(* handleClearWebhooks), the worker's flow orchestrators (handle3DSPayment, *)
(* handleLiabilityShift, handleApmPayment, ...) and the 3DS part of the    *)
(* frontend (App.tsx).                                                     *)
(*                                                                         *)
(* JavaScript values are modelled as tagged leaves [ty, s]: ty is the JS   *)
(* type and s the value's text, so that truthiness ("", 0, null and        *)
(* undefined are falsy) is decided as the runtime decides it.  Texts on    *)
(* the wire are real strings; JSON.parse, URLSearchParams and atob are     *)
(* tabulated on the finite set of texts the model sends.                   *)
(***************************************************************************)
EXTENDS Integers, Sequences, FiniteSets, TLC

VARIABLES
    webhookStore,   \* the worker's in-memory webhook list, newest first
    clock,          \* Date.now(): advanced by every handler that reads it
    response,       \* the HTTP response of the last worker handler call
    request,        \* history: the request of the last handleWebhook call
    inserted,       \* history: the records unshifted since the last clear, oldest first
    scenario,       \* executeScenario: the scenario being run (its steps)
    pc,             \* executeScenario: "idle" | "loop" | "done" | "thrown"
    stepIndex,      \* executeScenario: index of the next step of the for loop
    steps,          \* executeScenario: the StepResult list
    context,        \* executeScenario: the RunContext
    finalStatus,    \* executeScenario: finalStatus
    halted,         \* executeScenario: the loop was left with break
    gatewayCalls,   \* history: the step ids for which fetch was issued
    runResult,      \* executeScenario: the returned ScenarioRunResult, or NoResult
    invocation,     \* history: the last orchestrator call (handler, input, outbound
                    \* calls, what the gateway answered to each, reply)
    pendingLiabilityShift,     \* App.tsx: the state set when a flow needs a challenge
    pendingLiabilityShiftRef,  \* App.tsx: the ref the message handler and the timer read
    timers,         \* App.tsx: setTimeout(() => runLiabilityShift(), 500) not yet fired
    awaiting,       \* App.tsx: liability-shift fetches whose reply has not arrived
    messages,       \* history: the window messages handleMessage received
    challenged,     \* history: what the gateway returned to the flows that ended
                    \* challenge_required (session token, initPayment transaction id)
    posts,          \* history: the bodies the App posted to /api/payment/liability-shift
    lastCall,       \* history: the last call of a pure function (name, arguments, outcome)
    inFlight,       \* the worker requests accepted and suspended at an await
    flows           \* the flow invocations in progress: each one's own locals

vars == <<webhookStore, clock, response, request, inserted, scenario, pc, stepIndex,
          steps, context, finalStatus, halted, gatewayCalls, runResult, invocation,
          pendingLiabilityShift, pendingLiabilityShiftRef, timers, awaiting, messages,
          challenged, posts, lastCall, inFlight, flows>>

storeVars == <<webhookStore, clock, response, request, inserted>>
scenarioVars == <<scenario, pc, stepIndex, steps, context, finalStatus, halted,
                  gatewayCalls, runResult>>
appVars == <<pendingLiabilityShift, pendingLiabilityShiftRef, timers, awaiting, messages,
             challenged, posts>>
auxVars == <<lastCall, inFlight, flows>>
workerVars == <<invocation, pendingLiabilityShift, pendingLiabilityShiftRef, timers,
                awaiting, messages, challenged, posts, lastCall, inFlight, flows>>

(***************************************************************************)
(* JavaScript values                                                       *)
(***************************************************************************)
Str(t) == [ty |-> "string", s |-> t]
Num(t) == [ty |-> "number", s |-> t]
Obj(t) == [ty |-> "object", s |-> t]
Null == [ty |-> "null", s |-> ""]
Undefined == [ty |-> "undefined", s |-> ""]

\* ToBoolean: what `if (v)`, `v || d` and `v ? a : b` test.
Truthy(v) ==
    CASE v.ty = "string" -> v.s # ""
      [] v.ty = "number" -> v.s \notin {"0", "NaN"}
      [] v.ty = "boolean" -> v.s = "true"
      [] v.ty = "object" -> TRUE
      [] OTHER -> FALSE

\* obj[key] on a plain object: undefined for a key the object does not hold.
Get(fields, key) == IF key \in DOMAIN fields THEN fields[key] ELSE Undefined

\* obj[key] = value
Put(fields, key, value) ==
    [k \in (DOMAIN fields) \cup {key} |-> IF k = key THEN value ELSE fields[k]]

EmptyObject == [k \in {} |-> Undefined]

\* params.forEach((value, key) => { payload[key] = value }): a later pair wins.
RECURSIVE FromPairs(_)
FromPairs(pairs) ==
    IF pairs = <<>> THEN EmptyObject
    ELSE Put(FromPairs(SubSeq(pairs, 1, Len(pairs) - 1)),
             pairs[Len(pairs)][1], Str(pairs[Len(pairs)][2]))

(***************************************************************************)
(* Texts on the wire.  Each row of WireTexts is one text a sender may put  *)
(* in a query string or a request body, with what the runtime's parsers    *)
(* make of it: `form` is URLSearchParams(text) as its (key, value) pairs   *)
(* in order ('+' decodes to a space), `json` is JSON.parse(text): "throw"  *)
(* for a SyntaxError, else the kind of the value and, for an object, its   *)
(* members.                                                                *)
(***************************************************************************)
JsonThrows == [kind |-> "throw", fields |-> EmptyObject]
JsonObject(pairs) == [kind |-> "object", fields |-> FromPairs(pairs)]
JsonOther(kind) == [kind |-> kind, fields |-> EmptyObject]

\* base64url of {"transStatus":"Y"}, unpadded
CresJsonB64 == "eyJ0cmFuc1N0YXR1cyI6IlkifQ"
\* base64url of the text: Invalid RReq >>   (its last character is '-', '+' in base64)
CresTextB64Url == "SW52YWxpZCBSUmVxID4-"
CresTextB64Std == "SW52YWxpZCBSUmVxID4+"
\* not base64: '!' is outside the alphabet
CresBadB64 == "!!bad!!"

\* The field maps senders use, as (key, value) pairs.
MapStatus == << <<"Status", "APPROVED">> >>
MapTxSpoof == << <<"transactionId", "tx1">>, <<"_dmnType", "Spoofed">> >>
MapEmpty == << >>
MapCresJson == << <<"cres", CresJsonB64>>, <<"ppp_status", "OK">> >>
MapCresText == << <<"cres", CresTextB64Url>> >>
MapCresBad == << <<"cres", CresBadB64>>, <<"TransactionID", "tx2">> >>
MapCresEmpty == << <<"cres", "">>, <<"Status", "APPROVED">> >>
MapCresJsonErr == << <<"cres", CresJsonB64>>, <<"errorMessage", "boo">> >>
MapCresBlank == << <<"cres", " ">> >>

FormTexts ==
    { [text |-> "Status=APPROVED", pairs |-> MapStatus],
      [text |-> "transactionId=tx1&_dmnType=Spoofed", pairs |-> MapTxSpoof],
      [text |-> "", pairs |-> MapEmpty],
      [text |-> "cres=eyJ0cmFuc1N0YXR1cyI6IlkifQ&ppp_status=OK", pairs |-> MapCresJson],
      [text |-> "cres=SW52YWxpZCBSUmVxID4-", pairs |-> MapCresText],
      [text |-> "cres=!!bad!!&TransactionID=tx2", pairs |-> MapCresBad],
      [text |-> "cres=&Status=APPROVED", pairs |-> MapCresEmpty],
      [text |-> "cres=eyJ0cmFuc1N0YXR1cyI6IlkifQ&errorMessage=boo", pairs |-> MapCresJsonErr],
      [text |-> "cres=+", pairs |-> MapCresBlank] }

JsonTexts ==
    { [text |-> "{\"Status\":\"APPROVED\"}", pairs |-> MapStatus],
      [text |-> "{\"transactionId\":\"tx1\",\"_dmnType\":\"Spoofed\"}", pairs |-> MapTxSpoof],
      [text |-> "{}", pairs |-> MapEmpty],
      [text |-> "{\"cres\":\"eyJ0cmFuc1N0YXR1cyI6IlkifQ\",\"ppp_status\":\"OK\"}", pairs |-> MapCresJson],
      [text |-> "{\"cres\":\"SW52YWxpZCBSUmVxID4-\"}", pairs |-> MapCresText],
      [text |-> "{\"cres\":\"!!bad!!\",\"TransactionID\":\"tx2\"}", pairs |-> MapCresBad],
      [text |-> "{\"cres\":\"\",\"Status\":\"APPROVED\"}", pairs |-> MapCresEmpty],
      [text |-> "{\"cres\":\"eyJ0cmFuc1N0YXR1cyI6IlkifQ\",\"errorMessage\":\"boo\"}", pairs |-> MapCresJsonErr],
      [text |-> "{\"cres\":\" \"}", pairs |-> MapCresBlank] }

\* Bodies that are neither a JSON object nor key=value pairs.
NotJsonText == "not json"
OddTexts ==
    { [text |-> NotJsonText, json |-> JsonThrows, form |-> << <<NotJsonText, "">> >>],
      [text |-> "null", json |-> JsonOther("null"), form |-> << <<"null", "">> >>],
      [text |-> "5", json |-> JsonOther("number"), form |-> << <<"5", "">> >>],
      [text |-> "[]", json |-> JsonOther("array"), form |-> << <<"[]", "">> >>] }

WireTexts ==
    { [text |-> r.text, json |-> JsonThrows, form |-> r.pairs] : r \in FormTexts }
    \cup { [text |-> r.text, json |-> JsonObject(r.pairs), form |-> << <<r.text, "">> >>]
           : r \in JsonTexts }
    \cup OddTexts

WireRow(text) == CHOOSE r \in WireTexts : r.text = text

\* JSON.parse(text)
JsonParse(text) == WireRow(text).json

\* new URLSearchParams(text), then forEach((value, key) => { payload[key] = value })
FormParse(text) == FromPairs(WireRow(text).form)

(***************************************************************************)
(* atob(cres.replace(/-/g, '+').replace(/_/g, '/')) on the cres values of  *)
(* the model.  atob strips ASCII whitespace first, so a blank decodes to   *)
(* the empty text; a character outside the alphabet throws.                *)
(***************************************************************************)
Base64UrlToStd(t) == IF t = CresTextB64Url THEN CresTextB64Std ELSE t

Atob(t) ==
    CASE t = CresJsonB64 -> [ok |-> TRUE, text |-> "{\"transStatus\":\"Y\"}"]
      [] t = CresTextB64Std -> [ok |-> TRUE, text |-> "Invalid RReq >>"]
      [] t \in {"", " "} -> [ok |-> TRUE, text |-> ""]
      [] OTHER -> [ok |-> FALSE, text |-> ""]

\* JSON.parse of a decoded cres text: the CRes members handleWebhook reads.
CresParse(text) ==
    IF text = "{\"transStatus\":\"Y\"}"
    THEN JsonObject(<< <<"transStatus", "Y">> >>)
    ELSE JsonThrows

(***************************************************************************)
(* The webhook store                                                       *)
(***************************************************************************)
\* `if (webhookStore.length > 100)` in handleWebhook and in storeInternalDmn
WebhookCapacity == 100
InternalDmnCapacity == 100

\* new Date().toISOString() at time ms
IsoString(ms) == ToString(ms)

\* `dmn_${Date.now()}_${Math.random().toString(36).slice(2, 8)}`
DmnId(ms, rnd) == "dmn_" \o ToString(ms) \o "_" \o rnd

\* Mutant: the length check and the pop are missing.
UnshiftNoTrim(store, record, capacity) == <<record>> \o store

\* Mutant: the trim removes the head (shift) instead of the tail (pop).
UnshiftAndShift(store, record, capacity) ==
    LET grown == <<record>> \o store
    IN  IF Len(grown) > capacity THEN SubSeq(grown, 2, Len(grown)) ELSE grown

\* Mutant: the record is prepended twice before the trim.
UnshiftTwiceAndTrim(store, record, capacity) ==
    LET grown == <<record, record>> \o store
    IN  IF Len(grown) > capacity THEN SubSeq(grown, 1, Len(grown) - 1) ELSE grown

\* webhookStore.unshift(record); if (webhookStore.length > capacity) webhookStore.pop()
UnshiftAndTrim(store, record, capacity) ==
    LET grown == <<record>> \o store
    IN  IF Len(grown) > capacity THEN SubSeq(grown, 1, Len(grown) - 1) ELSE grown

(***************************************************************************)
(* handleWebhook.  A request is [method, contentType, text]: text is the   *)
(* query string of a GET and the body of a POST.                           *)
(***************************************************************************)
FormContentType == "application/x-www-form-urlencoded"
JsonContentType == "application/json"
NoContentType == ""

\* contentType.includes('application/x-www-form-urlencoded')
IsFormContentType(ct) == ct = FormContentType
\* contentType.includes('application/json')
IsJsonContentType(ct) == ct = JsonContentType

Parsed(fields) == [threw |-> FALSE, kind |-> "object", fields |-> fields]
Threw == [threw |-> TRUE, kind |-> "throw", fields |-> EmptyObject]

\* Mutant: a cres that is not base64 is reported like one that is not JSON.
DecodeCresFailureAsError(fields) ==
    LET cres == Get(fields, "cres")
    IN  IF ~(Truthy(cres) /\ cres.ty = "string") THEN fields
        ELSE Put(Put(fields, "messageType", Str("Error")), "errorMessage", cres)

\* Mutant: the inner catch keeps the decoded text and extracts no error message.
DecodeCresNoErrorMessage(fields) ==
    LET cres == Get(fields, "cres")
    IN  IF ~(Truthy(cres) /\ cres.ty = "string") THEN fields
        ELSE LET decoded == Atob(Base64UrlToStd(cres.s))
             IN  IF ~decoded.ok
                 THEN Put(fields, "cresDecodeError", Str("Failed to decode base64"))
                 ELSE Put(fields, "cresDecoded", Str(decoded.text))

\* The form branch's cres decoding: base64, then JSON, with both catch blocks.
DecodeCres(fields) ==
    LET cres == Get(fields, "cres")
    IN  IF ~(Truthy(cres) /\ cres.ty = "string") THEN fields
        ELSE LET decoded == Atob(Base64UrlToStd(cres.s))
             IN  IF ~decoded.ok
                 THEN Put(fields, "cresDecodeError", Str("Failed to decode base64"))
                 ELSE LET cresJson == CresParse(decoded.text)
                          withText == Put(fields, "cresDecoded", Str(decoded.text))
                      IN  IF cresJson.kind = "object"
                          THEN Put(Put(Put(Put(Put(withText,
                                   "cresDecoded", Obj(decoded.text)),
                                   "transStatus", Get(cresJson.fields, "transStatus")),
                                   "threeDSServerTransID", Get(cresJson.fields, "threeDSServerTransID")),
                                   "acsTransID", Get(cresJson.fields, "acsTransID")),
                                   "messageType",
                                   IF Truthy(Get(cresJson.fields, "messageType"))
                                   THEN Get(cresJson.fields, "messageType") ELSE Str("CRes"))
                          ELSE Put(Put(Put(withText,
                                   "cresDecodedText", Str(decoded.text)),
                                   "messageType", Str("Error")),
                                   "errorMessage", Str(decoded.text))

\* JSON.parse(rawBody) as Record<string, unknown>: the cast checks nothing.
JsonPayload(text) ==
    LET v == JsonParse(text)
    IN  IF v.kind = "throw" THEN Threw
        ELSE [threw |-> FALSE, kind |-> v.kind, fields |-> v.fields]

\* The content type is neither form nor JSON: JSON first, then form, then rawBody.
FallbackPayload(text) ==
    LET v == JsonParse(text)
    IN  IF v.kind # "throw"
        THEN [threw |-> FALSE, kind |-> v.kind, fields |-> v.fields]
        ELSE LET form == FormParse(text)
             IN  IF DOMAIN form = {}
                 THEN Parsed(Put(EmptyObject, "rawBody", Str(text)))
                 ELSE Parsed(form)

\* The payload as parsed from the request, before the metadata is added.
ParseWebhook(req) ==
    IF req.method = "GET" THEN Parsed(FormParse(req.text))
    ELSE IF IsFormContentType(req.contentType)
         THEN Parsed(DecodeCres(FormParse(req.text)))
    ELSE IF IsJsonContentType(req.contentType) THEN JsonPayload(req.text)
    ELSE FallbackPayload(req.text)

\* Mutant: the status check comes before the cres check.
ClassifyDmnStatusFirst(fields) ==
    IF Truthy(Get(fields, "ppp_status")) \/ Truthy(Get(fields, "Status"))
    THEN "Payment DMN"
    ELSE IF Truthy(Get(fields, "cres"))
         THEN (IF Truthy(Get(fields, "errorMessage")) THEN "3DS Error"
               ELSE "3DS Challenge Response")
    ELSE IF Truthy(Get(fields, "transactionId")) \/ Truthy(Get(fields, "TransactionID"))
         THEN "Transaction DMN"
    ELSE "Unknown DMN"

\* The _dmnType chain.
ClassifyDmn(fields) ==
    IF Truthy(Get(fields, "cres"))
    THEN (IF Truthy(Get(fields, "errorMessage")) THEN "3DS Error"
          ELSE "3DS Challenge Response")
    ELSE IF Truthy(Get(fields, "ppp_status")) \/ Truthy(Get(fields, "Status"))
         THEN "Payment DMN"
    ELSE IF Truthy(Get(fields, "transactionId")) \/ Truthy(Get(fields, "TransactionID"))
         THEN "Transaction DMN"
    ELSE "Unknown DMN"

\* payload._receivedAt = ...; payload._contentType = ...; payload._dmnType = ...
\* The worker is an ES module, so strict: setting a property on null or on a
\* primitive (a JSON body that is null, a number, a string) is a TypeError.
AddMetadata(parsed, contentType, ms) ==
    IF parsed.threw THEN Threw
    ELSE IF parsed.kind \notin {"object", "array"} THEN Threw
    ELSE LET withMeta == Put(Put(parsed.fields, "_receivedAt", Str(IsoString(ms))),
                             "_contentType", Str(contentType))
         IN  [threw |-> FALSE, kind |-> parsed.kind,
              fields |-> Put(withMeta, "_dmnType", Str(ClassifyDmn(withMeta)))]

\* The body of handleWebhook's try block up to the record it builds.
WebhookOutcome(req, ms, rnd) ==
    LET p == AddMetadata(ParseWebhook(req), req.contentType, ms)
    IN  IF p.threw THEN [stored |-> FALSE, record |-> <<>>]
        ELSE [stored |-> TRUE,
              record |-> [id |-> DmnId(ms, rnd), timestamp |-> IsoString(ms),
                          payload |-> [kind |-> p.kind, fields |-> p.fields]]]

\* new Response('OK', { status: 200 }) at the end of the try block
WebhookOkResponse ==
    [handler |-> "handleWebhook", status |-> 200, body |-> "OK", webhooks |-> <<>>, count |-> 0]
\* Mutant: the catch block reports the failure to the caller.
WebhookCatchResponse500 ==
    [handler |-> "handleWebhook", status |-> 500, body |-> "Webhook error",
     webhooks |-> <<>>, count |-> 0]

\* new Response('OK', { status: 200 }) in the catch block
WebhookCatchResponse ==
    [handler |-> "handleWebhook", status |-> 200, body |-> "OK", webhooks |-> <<>>, count |-> 0]

\* What handleWebhook does to the store and the clock, from the line after
\* its last await to its return: no other handler runs in between.
IngestWebhook(req, ms, rnd) ==
    LET out == WebhookOutcome(req, ms, rnd)
    IN  /\ clock' = ms
        /\ request' = req
        /\ IF out.stored
           THEN /\ webhookStore' = UnshiftAndTrim(webhookStore, out.record, WebhookCapacity)
                /\ inserted' = Append(inserted, out.record)
                /\ response' = WebhookOkResponse
           ELSE /\ UNCHANGED <<webhookStore, inserted>>
                /\ response' = WebhookCatchResponse

HandleWebhook(req, ms, rnd) ==
    /\ IngestWebhook(req, ms, rnd)
    /\ UNCHANGED scenarioVars
    /\ UNCHANGED workerVars

(***************************************************************************)
(* storeInternalDmn: an orchestrator mirrors its gateway response into the *)
(* store.  InternalDmnLabels are the (type, operation) pairs of the call   *)
(* sites; GatewayBodies are the response objects mirrored here.            *)
(***************************************************************************)
InternalDmnLabels ==
    { <<"Payment (3DS)", "payment.do">>,
      <<"Payment (Post 3DS)", "payment.do">>,
      <<"Payment Status", "getPaymentStatus">>,
      <<"Transaction Details", "getTransactionDetails">>,
      <<"Settle Response", "settleTransaction">>,
      <<"Void Response", "voidTransaction">>,
      <<"Refund Response", "refundTransaction">>,
      <<"Payout Response", "payout">>,
      <<"APM Payment", "payment.do">> }

GatewayBodies ==
    { FromPairs(<< <<"status", "SUCCESS">>, <<"transactionId", "tx9">> >>),
      FromPairs(<< <<"status", "ERROR">>, <<"_dmnType", "FromGateway">> >>) }

\* { ...response, _dmnType: type, _operation: operation, _source, _receivedAt }
InternalDmnRecord(type, operation, body, ms, rnd) ==
    [id |-> DmnId(ms, rnd), timestamp |-> IsoString(ms),
     payload |-> [kind |-> "object",
                  fields |-> Put(Put(Put(Put(body,
                      "_dmnType", Str(type)),
                      "_operation", Str(operation)),
                      "_source", Str("API Response")),
                      "_receivedAt", Str(IsoString(ms)))]]

\* jsonResponse(...) of the orchestrator that mirrored its response
OrchestratorResponse(operation) ==
    [handler |-> operation, status |-> 200, body |-> "", webhooks |-> <<>>, count |-> 0]

\* What storeInternalDmn does to the store: a synchronous function.
MirrorInternalDmn(type, operation, body, ms, rnd) ==
    LET dmn == InternalDmnRecord(type, operation, body, ms, rnd)
    IN  /\ clock' = ms
        /\ webhookStore' = UnshiftAndTrim(webhookStore, dmn, InternalDmnCapacity)
        /\ inserted' = Append(inserted, dmn)
        /\ response' = OrchestratorResponse(operation)
        /\ UNCHANGED request

StoreInternalDmn(type, operation, body, ms, rnd) ==
    /\ MirrorInternalDmn(type, operation, body, ms, rnd)
    /\ UNCHANGED scenarioVars
    /\ UNCHANGED workerVars

\* jsonResponse({ webhooks: webhookStore, count: webhookStore.length })
GetWebhooksResponse(store) ==
    [handler |-> "handleGetWebhooks", status |-> 200, body |-> "",
     webhooks |-> store, count |-> Len(store)]

HandleGetWebhooks ==
    /\ response' = GetWebhooksResponse(webhookStore)
    /\ UNCHANGED <<webhookStore, clock, request, inserted>>
    /\ UNCHANGED scenarioVars
    /\ UNCHANGED workerVars

\* Mutant: the clear pops one record instead of truncating the list.
ClearedStorePopsOne(store) ==
    IF store = <<>> THEN <<>> ELSE SubSeq(store, 1, Len(store) - 1)

\* webhookStore.length = 0
ClearedStore(store) == <<>>

ClearWebhooksResponse ==
    [handler |-> "handleClearWebhooks", status |-> 200, body |-> "Webhooks cleared",
     webhooks |-> <<>>, count |-> 0]

HandleClearWebhooks ==
    /\ webhookStore' = ClearedStore(webhookStore)
    /\ inserted' = <<>>
    /\ response' = ClearWebhooksResponse
    /\ UNCHANGED <<clock, request>>
    /\ UNCHANGED scenarioVars
    /\ UNCHANGED workerVars

(***************************************************************************)
(* Inputs                                                                  *)
(***************************************************************************)
Request(method, contentType, text) ==
    [method |-> method, contentType |-> contentType, text |-> text]

\* Every field map by every route: query string, form body, JSON body, and a
\* body of either syntax with no content type; then the bodies that are no
\* field map at all, and a GET that carries a form content-type header.
Requests ==
    { Request("GET", NoContentType, r.text) : r \in FormTexts }
    \cup { Request("POST", FormContentType, r.text) : r \in FormTexts }
    \cup { Request("POST", JsonContentType, r.text) : r \in JsonTexts }
    \cup { Request("POST", NoContentType, r.text) : r \in FormTexts \cup JsonTexts }
    \cup { Request("POST", ct, r.text) : ct \in {JsonContentType, NoContentType}, r \in OddTexts }
    \cup { Request("GET", FormContentType, "cres=SW52YWxpZCBSUmVxID4-") }

\* Math.random().toString(36).slice(2, 8)
RandomSuffixes == {"k3x9qa"}

NoRequest == Request("", "", "")
NoResponse == [handler |-> "", status |-> 0, body |-> "", webhooks |-> <<>>, count |-> 0]
NoInvocation ==
    [handler |-> "", input |-> EmptyObject, outbound |-> <<>>, gateway |-> <<>>,
     reply |-> [http |-> 0, fields |-> EmptyObject, steps |-> <<>>, context |-> EmptyObject]]
NoResult == [returned |-> FALSE, status |-> "", steps |-> <<>>, context |-> EmptyObject]

\* useState(null), useRef(null): no flow is waiting for its challenge
NoPending == [set |-> FALSE, fields |-> EmptyObject]

AppIdle ==
    /\ pendingLiabilityShift = NoPending
    /\ pendingLiabilityShiftRef = NoPending
    /\ timers = 0
    /\ awaiting = 0
    /\ messages = <<>>
    /\ challenged = {}
    /\ posts = <<>>

NoCall == [fn |-> ""]

AuxIdle == lastCall = NoCall /\ inFlight = {} /\ flows = <<>>

WorkerIdle == invocation = NoInvocation /\ AppIdle /\ AuxIdle

ScenarioIdle ==
    /\ scenario = <<>>
    /\ pc = "idle"
    /\ stepIndex = 1
    /\ steps = <<>>
    /\ context = EmptyObject
    /\ finalStatus = "completed"
    /\ halted = FALSE
    /\ gatewayCalls = <<>>
    /\ runResult = NoResult

StoreInit ==
    /\ webhookStore = <<>>
    /\ clock = 0
    /\ response = NoResponse
    /\ request = NoRequest
    /\ inserted = <<>>

(***************************************************************************)
(* SpecWebhook: a few handler calls, every request of Requests.            *)
(***************************************************************************)
MaxIngest == 2

WebhookIngest ==
    /\ clock < MaxIngest
    /\ \E req \in Requests, rnd \in RandomSuffixes : HandleWebhook(req, clock + 1, rnd)

InternalMirror ==
    /\ clock < MaxIngest
    /\ \E label \in InternalDmnLabels, body \in GatewayBodies, rnd \in RandomSuffixes :
          StoreInternalDmn(label[1], label[2], body, clock + 1, rnd)

InitWebhook == StoreInit /\ ScenarioIdle /\ WorkerIdle

NextWebhook ==
    \/ WebhookIngest
    \/ InternalMirror
    \/ HandleGetWebhooks
    \/ HandleClearWebhooks

SpecWebhook == InitWebhook /\ [][NextWebhook]_vars

(***************************************************************************)
(* SpecStore: the store filled past its capacity.  The calls follow a      *)
(* fixed workload (which handler and which input the c-th call has), so    *)
(* that the store can be driven through 100 records; clears and listings   *)
(* may come between any two calls.                                         *)
(***************************************************************************)
MaxCalls == 103

WorkloadRequests ==
    << Request("POST", FormContentType, "cres=SW52YWxpZCBSUmVxID4-"),
       Request("GET", NoContentType, "Status=APPROVED"),
       Request("POST", JsonContentType, "{\"transactionId\":\"tx1\",\"_dmnType\":\"Spoofed\"}"),
       Request("POST", NoContentType, "") >>

\* The c-th call of the workload: a gateway response mirrored by an
\* orchestrator, a JSON webhook whose body does not parse, or one of
\* WorkloadRequests in turn.
WorkloadKind(c) ==
    IF c % 50 = 7 THEN "mirror" ELSE IF c % 50 = 23 THEN "malformed" ELSE "webhook"

WorkloadRequest(c) ==
    IF WorkloadKind(c) = "malformed" THEN Request("POST", JsonContentType, NotJsonText)
    ELSE WorkloadRequests[(c % Len(WorkloadRequests)) + 1]

WorkloadIngest ==
    /\ clock < MaxCalls
    /\ WorkloadKind(clock + 1) # "mirror"
    /\ \E rnd \in RandomSuffixes : HandleWebhook(WorkloadRequest(clock + 1), clock + 1, rnd)

WorkloadMirror ==
    /\ clock < MaxCalls
    /\ WorkloadKind(clock + 1) = "mirror"
    /\ \E rnd \in RandomSuffixes :
          StoreInternalDmn("Settle Response", "settleTransaction",
                           FromPairs(<< <<"status", "SUCCESS">>, <<"transactionId", "tx9">> >>),
                           clock + 1, rnd)

InitStore == StoreInit /\ ScenarioIdle /\ WorkerIdle

NextStore ==
    \/ WorkloadIngest
    \/ WorkloadMirror
    \/ HandleGetWebhooks
    \/ HandleClearWebhooks

SpecStore == InitStore /\ [][NextStore]_vars

(***************************************************************************)
(* The scenario execution engine.  A response body is a JSON object given  *)
(* by its leaves: the key of a leaf is its dot path, as                    *)
(* extractFromResponse walks it.                                           *)
(***************************************************************************)
AcsUrlPath == "paymentOption.card.threeD.acsUrl"
CReqPath == "paymentOption.card.threeD.cReq"

\* extractFromResponse(response, path)
ExtractFromResponse(body, path) == Get(body, path)

\* String(v)
JsString(v) ==
    CASE v.ty = "object" -> "[object Object]"
      [] v.ty = "null" -> "null"
      [] v.ty = "undefined" -> "undefined"
      [] OTHER -> v.s

\* The steps scenarios are made of: id and contextWrites (response path -> context key).
StepLibrary ==
    << [id |-> "getSessionToken", contextWrites |-> << <<"sessionToken", "sessionToken">> >>],
       [id |-> "initPayment", contextWrites |-> << <<"transactionId", "initPaymentTransactionId">> >>],
       [id |-> "payment", contextWrites |-> << <<"transactionId", "paymentTransactionId">>,
                                               <<"authCode", "authCode">> >>],
       [id |-> "settleTransaction", contextWrites |-> << <<"transactionId", "relatedTransactionId">> >>],
       [id |-> "refundTransaction", contextWrites |-> << >>] >>

MaxSteps == 3

Scenarios == { SubSeq(StepLibrary, 1, n) : n \in 0..MaxSteps }

\* What one fetch can come back with: a transport failure (fetch rejects, or the
\* body is not JSON), the JSON text null, or a JSON object.
GatewayObjects ==
    { [k \in {"status", "errCode", "transactionStatus", "transactionId", "sessionToken",
              AcsUrlPath, CReqPath}
          |-> CASE k = "status" -> Str(st)
                [] k = "errCode" -> Num(ec)
                [] k = "transactionStatus" -> Str(ts)
                [] k = "transactionId" -> Str("tx7")
                [] k = "sessionToken" -> Str("st-1")
                [] k = AcsUrlPath -> acs
                [] k = CReqPath -> creq] :
        st \in {"SUCCESS", "ERROR"}, ec \in {"0", "1001"}, ts \in {"APPROVED", "REDIRECT"},
        acs \in {Undefined, Str(""), Str("https://acs.example/challenge")},
        creq \in {Undefined, Str("creq-token")} }

GatewayOutcomes ==
    { [kind |-> "transportError", httpStatus |-> 0, body |-> EmptyObject],
      [kind |-> "notJson", httpStatus |-> 502, body |-> EmptyObject],
      [kind |-> "null", httpStatus |-> 200, body |-> EmptyObject] }
    \cup { [kind |-> "object", httpStatus |-> 200, body |-> b] : b \in GatewayObjects }

\* for (const [responsePath, contextKey] of Object.entries(step.contextWrites)) ...
\* Mutant: a rule writes its key even when the response path is undefined.
RECURSIVE ApplyContextWritesAlways(_, _, _)
ApplyContextWritesAlways(ctx, writes, body) ==
    IF writes = <<>> THEN ctx
    ELSE ApplyContextWritesAlways(Put(ctx, writes[1][2], ExtractFromResponse(body, writes[1][1])),
                                  SubSeq(writes, 2, Len(writes)), body)

RECURSIVE ApplyContextWrites(_, _, _)
ApplyContextWrites(ctx, writes, body) ==
    IF writes = <<>> THEN ctx
    ELSE LET value == ExtractFromResponse(body, writes[1][1])
             next == IF value # Undefined THEN Put(ctx, writes[1][2], value) ELSE ctx
         IN  ApplyContextWrites(next, SubSeq(writes, 2, Len(writes)), body)

NoChallenge == [present |-> FALSE, acsUrl |-> "", cReq |-> ""]

\* Mutant: the redirect branch of the status chain is missing.
ClassifyStepNoRedirect(body) ==
    IF Get(body, "status") = Str("ERROR") \/ Truthy(Get(body, "errCode")) THEN "error"
    ELSE "success"

\* Mutant: the redirect test comes before the error test.
ClassifyStepRedirectFirst(body) ==
    IF /\ Get(body, "transactionStatus") = Str("REDIRECT")
       /\ Truthy(ExtractFromResponse(body, AcsUrlPath))
       /\ Truthy(ExtractFromResponse(body, CReqPath))
    THEN "redirect"
    ELSE IF Get(body, "status") = Str("ERROR") \/ Truthy(Get(body, "errCode")) THEN "error"
    ELSE "success"

\* The status chain of executeStep: error first, then redirect, else success.
ClassifyStep(body) ==
    IF Get(body, "status") = Str("ERROR") \/ Truthy(Get(body, "errCode")) THEN "error"
    ELSE IF /\ Get(body, "transactionStatus") = Str("REDIRECT")
            /\ Truthy(ExtractFromResponse(body, AcsUrlPath))
            /\ Truthy(ExtractFromResponse(body, CReqPath))
         THEN "redirect"
    ELSE "success"

\* String(error) of what fetch or response.json() rejects with.
ErrorText(kind) ==
    IF kind = "transportError" THEN "TypeError: fetch failed"
    ELSE "SyntaxError: Unexpected token < in JSON at position 0"

\* Mutant: the catch block of executeStep rethrows.
CaughtStepRethrown(step, ctx, outcome) ==
    [threw |-> TRUE,
     result |-> [stepId |-> step.id, status |-> "error", httpStatus |-> 0,
                 body |-> EmptyObject, threeDSChallenge |-> NoChallenge],
     updatedContext |-> ctx]

\* The catch block of executeStep: a StepResult with status error, response
\* status 0 and the error text, and the context as it was given.
CaughtStep(step, ctx, outcome) ==
    [threw |-> FALSE,
     result |-> [stepId |-> step.id, status |-> "error", httpStatus |-> 0,
                 body |-> Put(EmptyObject, "error", Str(ErrorText(outcome.kind))),
                 threeDSChallenge |-> NoChallenge],
     updatedContext |-> ctx]

\* executeStep(step, context) for one outcome of its fetch: `threw` when the
\* promise rejects (responseBody.transactionStatus on a null body), else the
\* StepResult and the updated context.
ExecuteStep(step, ctx, outcome) ==
    IF outcome.kind \in {"transportError", "notJson"}
    THEN CaughtStep(step, ctx, outcome)
    ELSE IF outcome.kind = "null"
    THEN [threw |-> TRUE,
          result |-> [stepId |-> step.id, status |-> "error", httpStatus |-> 0,
                      body |-> EmptyObject, threeDSChallenge |-> NoChallenge],
          updatedContext |-> ctx]
    ELSE LET body == outcome.body
             status == ClassifyStep(body)
             acsUrl == ExtractFromResponse(body, AcsUrlPath)
             cReq == ExtractFromResponse(body, CReqPath)
             written == ApplyContextWrites(ctx, step.contextWrites, body)
         IN  [threw |-> FALSE,
              result |-> [stepId |-> step.id, status |-> status,
                          httpStatus |-> outcome.httpStatus, body |-> body,
                          threeDSChallenge |->
                              IF status = "redirect"
                              THEN [present |-> TRUE, acsUrl |-> JsString(acsUrl),
                                    cReq |-> JsString(cReq)]
                              ELSE NoChallenge],
              updatedContext |->
                  IF status = "redirect"
                  THEN Put(Put(written, "acsUrl", Str(JsString(acsUrl))),
                           "cReq", Str(JsString(cReq)))
                  ELSE written]

\* Mutant: the error check (and its break) is missing.
IsFailureNever(result) == FALSE

\* if (result.status === 'error') { finalStatus = 'failed'; break; }
IsFailure(result) == result.status = "error"

\* Mutant: the redirect check (and its break) is missing.
IsChallengeNever(result) == FALSE

\* if (result.status === 'redirect' && result.threeDSChallenge) { ...; break; }
IsChallenge(result) == result.status = "redirect" /\ result.threeDSChallenge.present

MaskContextKeepEnv(ctx) == ctx

\* maskContextSensitiveData: const { env, ...rest } = context
MaskContextSensitiveData(ctx) == [k \in (DOMAIN ctx) \ {"env"} |-> ctx[k]]

InitialContexts == { EmptyObject, Put(EmptyObject, "sessionToken", Str("seed-token")) }

\* executeScenario up to its loop: steps = [], context = { env, ...initialContext }
StartScenario ==
    /\ pc = "idle"
    /\ \E sc \in Scenarios, initialContext \in InitialContexts :
          /\ scenario' = sc
          /\ context' = [k \in {"env"} \cup DOMAIN initialContext |->
                            IF k \in DOMAIN initialContext THEN initialContext[k]
                            ELSE Obj("EnvConfig")]
    /\ pc' = "loop"
    /\ stepIndex' = 1
    /\ steps' = <<>>
    /\ finalStatus' = "completed"
    /\ halted' = FALSE
    /\ gatewayCalls' = <<>>
    /\ runResult' = NoResult
    /\ UNCHANGED storeVars
    /\ UNCHANGED workerVars

\* One iteration of `for (const step of scenario.steps)`; lastCall keeps the
\* arguments and the answer of its executeStep call.
RunStep ==
    /\ pc = "loop"
    /\ ~halted
    /\ stepIndex <= Len(scenario)
    /\ \E outcome \in GatewayOutcomes :
          LET step == scenario[stepIndex]
              done == ExecuteStep(step, context, outcome)
          IN  /\ gatewayCalls' = Append(gatewayCalls, step.id)
              /\ lastCall' = [fn |-> "executeStep", step |-> step, context |-> context,
                               outcome |-> outcome, done |-> done]
              /\ IF done.threw
                 THEN /\ pc' = "thrown"
                      /\ UNCHANGED <<steps, context, finalStatus, halted, stepIndex>>
                 ELSE /\ pc' = "loop"
                      /\ steps' = Append(steps, done.result)
                      /\ context' = done.updatedContext
                      /\ stepIndex' = stepIndex + 1
                      /\ finalStatus' = IF IsFailure(done.result) THEN "failed"
                                        ELSE IF IsChallenge(done.result) THEN "challenge_required"
                                        ELSE finalStatus
                      /\ halted' = (IsFailure(done.result) \/ IsChallenge(done.result))
    /\ UNCHANGED <<scenario, runResult>>
    /\ UNCHANGED storeVars
    /\ UNCHANGED <<invocation, appVars, inFlight, flows>>

\* The return statement after the loop.
ReturnScenario ==
    /\ pc = "loop"
    /\ halted \/ stepIndex > Len(scenario)
    /\ runResult' = [returned |-> TRUE, status |-> finalStatus, steps |-> steps,
                     context |-> MaskContextSensitiveData(context)]
    /\ pc' = "done"
    /\ UNCHANGED <<scenario, stepIndex, steps, context, finalStatus, halted, gatewayCalls>>
    /\ UNCHANGED storeVars
    /\ UNCHANGED workerVars

InitScenario == StoreInit /\ ScenarioIdle /\ WorkerIdle

NextScenario ==
    \/ StartScenario
    \/ RunStep
    \/ ReturnScenario

SpecScenario == InitScenario /\ [][NextScenario]_vars

(***************************************************************************)
(* Properties of executeScenario (SpecScenario)                            *)
(***************************************************************************)
StepIndexes == 1..Len(steps)

\* C1: executeScenario halts at the first step whose StepResult has status
\* error: that step is the last entry of the steps list, no fetch is issued
\* for a later step, and the run returns status 'failed' with that list.
C1_HaltsOnError ==
    \A i \in StepIndexes :
        steps[i].status = "error" =>
            /\ i = Len(steps)
            /\ Len(gatewayCalls) = i
            /\ runResult.returned =>
                  /\ runResult.status = "failed"
                  /\ runResult.steps = steps

C1_Witness ==
    /\ runResult.returned
    /\ runResult.status = "failed"
    /\ Len(runResult.steps) = 2
    /\ Len(scenario) = 3
    /\ runResult.steps[2].status = "error"

\* C2 as stated: executeScenario halts at the first step whose gateway
\* response has transactionStatus REDIRECT with acsUrl and cReq both present:
\* the run returns 'challenge_required', the step carries the challenge, it is
\* the last entry and no later step is executed.
RedirectWithBothPresent(body) ==
    /\ Get(body, "transactionStatus") = Str("REDIRECT")
    /\ Get(body, AcsUrlPath) # Undefined
    /\ Get(body, CReqPath) # Undefined

HaltsAsChallenge(i) ==
    /\ i = Len(steps)
    /\ Len(gatewayCalls) = i
    /\ steps[i].status = "redirect"
    /\ steps[i].threeDSChallenge =
          [present |-> TRUE, acsUrl |-> Get(steps[i].body, AcsUrlPath).s,
           cReq |-> Get(steps[i].body, CReqPath).s]
    /\ steps[i].threeDSChallenge.acsUrl # ""
    /\ steps[i].threeDSChallenge.cReq # ""
    /\ runResult.returned =>
          /\ runResult.status = "challenge_required"
          /\ runResult.steps = steps

C2_Original ==
    \A i \in StepIndexes :
        (steps[i].httpStatus # 0 /\ RedirectWithBothPresent(steps[i].body))
            => HaltsAsChallenge(i)

\* C2 amended: the same, for a response that carries no error signal (status
\* 'ERROR' or a truthy errCode) and whose acsUrl and cReq are non-empty.
C2_HaltsOnChallenge ==
    \A i \in StepIndexes :
        ( /\ steps[i].httpStatus # 0
          /\ Get(steps[i].body, "status") # Str("ERROR")
          /\ ~Truthy(Get(steps[i].body, "errCode"))
          /\ Get(steps[i].body, "transactionStatus") = Str("REDIRECT")
          /\ Truthy(Get(steps[i].body, AcsUrlPath))
          /\ Truthy(Get(steps[i].body, CReqPath)) )
            => HaltsAsChallenge(i)

C2_Witness ==
    /\ runResult.returned
    /\ runResult.status = "challenge_required"
    /\ Len(runResult.steps) = 2
    /\ Len(scenario) = 3
    /\ runResult.steps[2].threeDSChallenge.present

\* C3: the returned status is one of completed, failed, challenge_required,
\* and it is 'completed' exactly when every step of the scenario was executed
\* and no StepResult has status error or redirect; the steps list then has one
\* entry per scenario step, in scenario order.
C3_CompletedIff ==
    runResult.returned =>
        LET rs == runResult.steps
            allRan == /\ Len(rs) = Len(scenario)
                      /\ Len(gatewayCalls) = Len(scenario)
            clean == \A i \in 1..Len(rs) : rs[i].status \notin {"error", "redirect"}
        IN  /\ runResult.status \in {"completed", "failed", "challenge_required"}
            /\ (runResult.status = "completed") <=> (allRan /\ clean)
            /\ runResult.status = "completed" =>
                  \A i \in 1..Len(scenario) :
                      rs[i].stepId = scenario[i].id /\ gatewayCalls[i] = scenario[i].id

C3_Witness ==
    /\ runResult.returned
    /\ runResult.status = "completed"
    /\ Len(scenario) = 3
    /\ Len(runResult.steps) = 3

(***************************************************************************)
(* Properties of the webhook store (SpecStore)                             *)
(***************************************************************************)
Min(a, b) == IF a < b THEN a ELSE b

\* C4: in every reachable state, after any sequence of handleWebhook calls,
\* storeInternalDmn mirrors and bulk clears, the store holds at most 100
\* records.
C4_AtMost100 == Len(webhookStore) <= 100

C4_Witness ==
    /\ Len(webhookStore) = 100
    /\ Len(inserted) > 100
    /\ response.handler = "handleWebhook"

\* C5: starting from an empty store, after n inserts with no clear in between
\* the store lists exactly the min(n, 100) most recently inserted records,
\* newest first; after 101 inserts 100 remain, the first inserted is gone and
\* the 101st is at the head.
C5_NewestFirst ==
    LET n == Len(inserted)
    IN  /\ Len(webhookStore) = Min(n, 100)
        /\ \A i \in 1..Len(webhookStore) : webhookStore[i] = inserted[n - i + 1]
        /\ n = 101 =>
              /\ Len(webhookStore) = 100
              /\ webhookStore[1] = inserted[101]
              /\ \A i \in 1..Len(webhookStore) : webhookStore[i] # inserted[1]

C5_Witness ==
    /\ Len(inserted) = 101
    /\ Len(webhookStore) = 100
    /\ \A i, j \in 1..Len(inserted) : inserted[i] = inserted[j] => i = j

\* C6: after handleClearWebhooks the store is empty and a listing returns no
\* records and count 0; a record leaves the store only by that clear or by
\* eviction of the oldest record when a record is inserted at capacity; the
\* records that stay keep their id, timestamp and payload.
C6_LeavesOnlyByClearOrEviction ==
    [][ /\ response'.handler = "handleClearWebhooks" => webhookStore' = <<>>
        /\ response'.handler = "handleGetWebhooks" =>
              /\ response'.webhooks = webhookStore
              /\ response'.count = Len(webhookStore)
              /\ (response.handler = "handleClearWebhooks" =>
                     response'.webhooks = <<>> /\ response'.count = 0)
        /\ response'.handler # "handleClearWebhooks" =>
              \/ webhookStore' = webhookStore
              \/ /\ webhookStore' # <<>>
                 /\ Tail(webhookStore') =
                       IF Len(webhookStore) = 100
                       THEN SubSeq(webhookStore, 1, 99)
                       ELSE webhookStore ]_vars

C6_Witness ==
    /\ response.handler = "handleClearWebhooks"
    /\ webhookStore = <<>>
    /\ clock > 100

(***************************************************************************)
(* Properties of handleWebhook (SpecWebhook)                               *)
(***************************************************************************)
\* The fields a request sends, whichever syntax carries them.
SentFields(req) ==
    IF JsonParse(req.text).kind = "object" THEN JsonParse(req.text).fields
    ELSE FormParse(req.text)

\* The records handleWebhook stored: it alone adds _contentType.
IsWebhookRecord(r) == "_contentType" \in DOMAIN r.payload.fields

DmnTypeOf(r) == Get(r.payload.fields, "_dmnType")

\* C7: handleWebhook answers every GET or POST with status 200 and the body
\* 'OK', also when the body fails to parse.
C7_AlwaysOk ==
    response.handler = "handleWebhook" => (response.status = 200 /\ response.body = "OK")

C7_Witness ==
    /\ response.handler = "handleWebhook"
    /\ request = Request("POST", JsonContentType, NotJsonText)
    /\ response.status = 200
    /\ webhookStore = <<>>
    /\ clock = 1

\* C8: every call to handleWebhook, also one with a malformed body (content
\* type application/json with a body that is not JSON, or a JSON body that is
\* null or not an object), adds one record to the head of the store.
C8_EveryCallStores ==
    response.handler = "handleWebhook" =>
        /\ webhookStore # <<>>
        /\ webhookStore[1].timestamp = IsoString(clock)
        /\ IsWebhookRecord(webhookStore[1])

\* C9 as stated: every record stored by handleWebhook has one of the five
\* _dmnType values, chosen by first match on the fields present: cres (3DS
\* Error if there is an error message, else 3DS Challenge Response), then
\* ppp_status or Status, then a transaction id, else Unknown DMN.
Present(fields, key) == key \in DOMAIN fields

DmnTypeByPresence(fields) ==
    IF Present(fields, "cres")
    THEN (IF Truthy(Get(fields, "errorMessage")) THEN "3DS Error"
          ELSE "3DS Challenge Response")
    ELSE IF Present(fields, "ppp_status") \/ Present(fields, "Status") THEN "Payment DMN"
    ELSE IF Present(fields, "transactionId") \/ Present(fields, "TransactionID")
         THEN "Transaction DMN"
    ELSE "Unknown DMN"

C9_Original ==
    \A i \in 1..Len(webhookStore) :
        IsWebhookRecord(webhookStore[i]) =>
            DmnTypeOf(webhookStore[i]) = Str(DmnTypeByPresence(webhookStore[i].payload.fields))

\* C9 amended: the same with "present" read as "holds a non-empty (truthy)
\* value", and 3DS Error chosen when the payload holds a non-empty
\* errorMessage; Status=APPROVED without cres is Payment DMN, and a _dmnType
\* sent by the caller never survives.
NonEmpty(fields, key) == Truthy(Get(fields, key))

DmnTypeByValue(fields) ==
    CASE NonEmpty(fields, "cres") /\ NonEmpty(fields, "errorMessage") -> "3DS Error"
      [] NonEmpty(fields, "cres") /\ ~NonEmpty(fields, "errorMessage") -> "3DS Challenge Response"
      [] ~NonEmpty(fields, "cres")
         /\ (NonEmpty(fields, "ppp_status") \/ NonEmpty(fields, "Status")) -> "Payment DMN"
      [] ~NonEmpty(fields, "cres")
         /\ ~(NonEmpty(fields, "ppp_status") \/ NonEmpty(fields, "Status"))
         /\ (NonEmpty(fields, "transactionId") \/ NonEmpty(fields, "TransactionID")) -> "Transaction DMN"
      [] OTHER -> "Unknown DMN"

C9_DmnTypeByValue ==
    \A i \in 1..Len(webhookStore) :
        LET r == webhookStore[i]
            f == r.payload.fields
        IN  IsWebhookRecord(r) =>
                /\ DmnTypeOf(r) = Str(DmnTypeByValue(f))
                /\ DmnTypeOf(r).s \in {"3DS Error", "3DS Challenge Response", "Payment DMN",
                                       "Transaction DMN", "Unknown DMN"}
                /\ (Get(f, "Status") = Str("APPROVED") /\ ~Present(f, "cres"))
                      => DmnTypeOf(r) = Str("Payment DMN")

C9_Witness ==
    /\ response.handler = "handleWebhook"
    /\ webhookStore # <<>>
    /\ Get(SentFields(request), "_dmnType") = Str("Spoofed")
    /\ DmnTypeOf(webhookStore[1]) = Str("Transaction DMN")
    /\ \E i \in 1..Len(webhookStore) :
          /\ IsWebhookRecord(webhookStore[i])
          /\ DmnTypeOf(webhookStore[i]) = Str("3DS Error")

\* C10 as stated: a webhook whose cres base64-decodes to text that is not
\* JSON is classified 3DS Error, whichever way the payload arrived.
CresDecodesToNonJson(req) ==
    LET cres == Get(SentFields(req), "cres")
        decoded == Atob(Base64UrlToStd(cres.s))
    IN  /\ cres.ty = "string"
        /\ cres.s # ""
        /\ decoded.ok
        /\ CresParse(decoded.text).kind = "throw"

C10_Original ==
    (response.handler = "handleWebhook" /\ CresDecodesToNonJson(request)) =>
        /\ webhookStore # <<>>
        /\ DmnTypeOf(webhookStore[1]) = Str("3DS Error")

\* C10 amended: a form-encoded POST whose cres base64-decodes to a non-empty
\* text that is not JSON is classified 3DS Error.
C10_FormPostNonJsonCres ==
    ( /\ response.handler = "handleWebhook"
      /\ request.method = "POST"
      /\ IsFormContentType(request.contentType)
      /\ CresDecodesToNonJson(request)
      /\ Atob(Base64UrlToStd(Get(SentFields(request), "cres").s)).text # "" ) =>
        /\ webhookStore # <<>>
        /\ webhookStore[1].timestamp = IsoString(clock)
        /\ DmnTypeOf(webhookStore[1]) = Str("3DS Error")
        /\ Get(webhookStore[1].payload.fields, "errorMessage") = Str("Invalid RReq >>")

C10_Witness ==
    /\ response.handler = "handleWebhook"
    /\ request = Request("POST", FormContentType, "cres=SW52YWxpZCBSUmVxID4-")
    /\ webhookStore # <<>>
    /\ DmnTypeOf(webhookStore[1]) = Str("3DS Error")

(***************************************************************************)
(* Checksums.  A digest is modelled by its preimage: sha256 is injective   *)
(* on the texts of the model, so two checksums are equal exactly when the  *)
(* concatenated values are.                                                *)
(***************************************************************************)
\* values.filter(v => v !== undefined && v !== null && v !== '').join('')
Concatenated(values) ==
    LET RECURSIVE JoinClean(_)
        JoinClean(vs) ==
            IF vs = <<>> THEN ""
            ELSE (IF Head(vs) \in {Undefined, Null, Str("")} THEN "" ELSE JsString(Head(vs)))
                 \o JoinClean(Tail(vs))
    IN  JoinClean(values)

\* A checksum that only counts its values: it does not depend on their order.
CalculateChecksumUnordered(values) == "sha256(" \o ToString(Len(values)) \o ")"

\* calculateChecksum(values) with the default algorithm: sha256(concatenated)
CalculateChecksum(values) == "sha256(" \o Concatenated(values) \o ")"

\* calculateChecksum(values, algorithm): sha256 for 'SHA256', sha1 otherwise.
CalculateChecksumWith(values, algorithm) ==
    IF algorithm = "SHA256" THEN CalculateChecksum(values)
    ELSE "sha1(" \o Concatenated(values) \o ")"

\* The registry: for each endpoint requiresChecksum, requiresSessionToken and
\* the checksumFields (name, required) in order.
ENDPOINT_SPECS ==
    LET Req(n) == [name |-> n, required |-> TRUE]
        Opt(n) == [name |-> n, required |-> FALSE]
        Entry(cs, st, fields) ==
            [requiresChecksum |-> cs, requiresSessionToken |-> st, checksumFields |-> fields]
        session == << Req("merchantId"), Req("merchantSiteId"), Req("clientRequestId"),
                      Req("timeStamp"), Req("merchantSecretKey") >>
        payment == << Req("merchantId"), Req("merchantSiteId"), Req("clientRequestId"),
                      Req("amount"), Req("currency"), Req("timeStamp"),
                      Req("merchantSecretKey") >>
        operation == << Req("merchantId"), Req("merchantSiteId"), Opt("clientRequestId"),
                        Req("clientUniqueId"), Req("amount"), Req("currency"),
                        Req("relatedTransactionId"), Opt("authCode"), Opt("comment"),
                        Opt("urlDetails"), Req("timeStamp"), Req("merchantSecretKey") >>
        user == << Req("merchantId"), Req("merchantSiteId"), Req("clientRequestId"),
                   Req("userTokenId"), Req("timeStamp"), Req("merchantSecretKey") >>
    IN  [e \in {"getSessionToken", "payment.do", "initPayment", "authorize3d", "verify3d",
                "settleTransaction", "voidTransaction", "refundTransaction", "createUser",
                "getUserUPOs", "addUPOCreditCard", "deleteUPO", "payout.do",
                "getPayoutStatus", "getPaymentStatus", "getTransactionDetails",
                "getCardDetails", "getMerchantPaymentMethods", "getMcpRates"} |->
          CASE e = "getSessionToken" -> Entry(TRUE, FALSE, session)
            [] e \in {"payment.do", "initPayment", "authorize3d"} -> Entry(TRUE, TRUE, payment)
            [] e = "verify3d" -> Entry(FALSE, TRUE, <<>>)
            [] e \in {"settleTransaction", "voidTransaction", "refundTransaction"} ->
                  Entry(TRUE, FALSE, operation)
            [] e = "createUser" ->
                  Entry(TRUE, FALSE,
                        << Req("merchantId"), Req("merchantSiteId"), Req("clientRequestId"),
                           Req("userTokenId"), Req("email"), Req("countryCode"),
                           Req("firstName"), Req("lastName"), Req("timeStamp"),
                           Req("merchantSecretKey") >>)
            [] e = "getUserUPOs" -> Entry(TRUE, FALSE, user)
            [] e = "addUPOCreditCard" -> Entry(TRUE, TRUE, user)
            [] e = "deleteUPO" ->
                  Entry(TRUE, FALSE,
                        << Req("merchantId"), Req("merchantSiteId"), Req("clientRequestId"),
                           Req("userPaymentOptionId"), Req("userTokenId"), Req("timeStamp"),
                           Req("merchantSecretKey") >>)
            [] e = "payout.do" ->
                  Entry(TRUE, TRUE,
                        << Req("merchantId"), Req("merchantSiteId"), Req("clientRequestId"),
                           Req("userTokenId"), Req("amount"), Req("currency"),
                           Opt("paymentMethodName"), Req("timeStamp"),
                           Req("merchantSecretKey") >>)
            [] e = "getPayoutStatus" -> Entry(TRUE, FALSE, user)
            [] e = "getPaymentStatus" -> Entry(FALSE, TRUE, <<>>)
            [] e = "getTransactionDetails" ->
                  Entry(TRUE, FALSE,
                        << Req("merchantId"), Req("merchantSiteId"), Req("clientRequestId"),
                           Opt("transactionId"), Opt("clientUniqueId"), Req("timeStamp"),
                           Req("merchantSecretKey") >>)
            [] e = "getCardDetails" ->
                  Entry(TRUE, TRUE,
                        << Req("merchantId"), Req("merchantSiteId"), Req("sessionToken"),
                           Req("clientRequestId"), Req("cardNumber"), Req("timeStamp"),
                           Req("merchantSecretKey") >>)
            [] OTHER -> Entry(TRUE, TRUE, session)]

\* The values calculateChecksumForEndpoint collects for the checksumFields of
\* a spec: a missing required field counts as '', a missing optional field is
\* left out, the secret comes from the caller.
ChecksumValues(fields, requestData, merchantSecretKey) ==
    LET RECURSIVE Values(_)
        Values(fs) ==
            IF fs = <<>> THEN <<>>
            ELSE LET field == Head(fs)
                     raw == IF field.name = "merchantSecretKey" THEN merchantSecretKey
                            ELSE Get(requestData, field.name)
                     value == IF field.required /\ raw \in {Undefined, Null, Str("")}
                              THEN Str("") ELSE raw
                 IN  (IF value \in {Undefined, Null} THEN <<>> ELSE << Str(JsString(value)) >>)
                     \o Values(Tail(fs))
    IN  Values(fields)

\* calculateChecksumForEndpoint for a registry key with the default algorithm.
CalculateChecksumForEndpoint(endpointName, requestData, merchantSecretKey) ==
    CalculateChecksum(ChecksumValues(ENDPOINT_SPECS[endpointName].checksumFields,
                                     requestData, merchantSecretKey))

(***************************************************************************)
(* The worker's flow orchestrators.  A request body is a map from dot path *)
(* to leaf ("env.merchantId", "card.number"); the keys "env" and "card"    *)
(* are present when the object is; { ...a, ...b } is b @@ a.  An orchestrator is a function of its   *)
(* request and of what each of its fetches comes back with, to the calls   *)
(* it issued (outbound), its reply and what it mirrored into the store.    *)
(***************************************************************************)
\* generateTimestamp()
GenerateTimestamp(ms) == ToString(ms)

\* `REQ_${Date.now()}_${Math.random().toString(36).slice(2, 8)}`
GenerateRequestId(ms, rnd) == "REQ_" \o ToString(ms) \o "_" \o rnd

\* JSON.stringify of an object: a property whose value is undefined is dropped.
JsonStringify(fields) == [k \in {k \in DOMAIN fields : fields[k] # Undefined} |-> fields[k]]

\* jsonResponse(data) and errorResponse(message)
JsonReply(fields, stepList, ctx) ==
    [http |-> 200, fields |-> JsonStringify(fields), steps |-> stepList,
     context |-> JsonStringify(ctx)]
ErrorReply(message) ==
    [http |-> 400, fields |-> Put(EmptyObject, "error", Str(message)), steps |-> <<>>,
     context |-> EmptyObject]

\* fetch(`${env.baseUrl}/ppp/api/<endpoint>.do`, { body: JSON.stringify(body) })
GatewayCall(endpoint, body) == [endpoint |-> endpoint, body |-> JsonStringify(body)]

\* The URL `${env.baseUrl}/ppp/api/...` is one fetch accepts: with no baseUrl it
\* is the relative "undefined/ppp/api/...", which fetch rejects before sending.
ValidGatewayUrl(input) == Get(input, "env.baseUrl") = Str("https://ppp-test.nuvei.com")

\* !env?.merchantId || !env?.merchantSiteId || !env?.merchantKey
HasCredentials(input) ==
    /\ Truthy(Get(input, "env.merchantId"))
    /\ Truthy(Get(input, "env.merchantSiteId"))
    /\ Truthy(Get(input, "env.merchantKey"))

\* The outcome of an orchestrator call.
Done(calls, reply, mirrored) == [outbound |-> calls, reply |-> reply, mirror |-> mirrored]

\* What one fetch of the worker can come back with: fetch rejects, the body is
\* not JSON, the body is the JSON text null, or a JSON object.
GatewayReplies(endpoint) ==
    LET failure(kind, http) == [kind |-> kind, httpStatus |-> http, body |-> EmptyObject]
        object(b) == [kind |-> "object", httpStatus |-> 200, body |-> b]
        failures == { failure("transportError", 0), failure("notJson", 502),
                      failure("null", 200) }
    IN  CASE endpoint = "getSessionToken" ->
               failures \cup
               { object(FromPairs(<< <<"status", "SUCCESS">>, <<"sessionToken", "st-1">> >>)),
                 object(FromPairs(<< <<"status", "SUCCESS">> >>)),
                 object(FromPairs(<< <<"status", "ERROR">>, <<"reason", "Invalid checksum">> >>)) }
          [] endpoint = "initPayment" ->
               failures \cup
               { object(FromPairs(<< <<"status", "SUCCESS">>, <<"transactionId", "tx-init">>,
                                     <<"paymentOption.card.threeD.version", "2.1.0">> >>)),
                 object(FromPairs(<< <<"status", "SUCCESS">> >>)),
                 object(FromPairs(<< <<"status", "ERROR">>, <<"reason", "Invalid card">> >>)) }
          [] endpoint = "payment.do" ->
               failures \cup
               { object([k \in {"status", "transactionStatus", "transactionId", "authCode"}
                            \cup threeD |->
                          CASE k = "status" -> Str(st)
                            [] k = "transactionStatus" -> Str(ts)
                            [] k = "transactionId" -> Str("tx-pay")
                            [] k = "authCode" -> Str("A7")
                            [] k = AcsUrlPath -> acs
                            [] k = CReqPath -> Str("creq-token")]) :
                   st \in {"SUCCESS", "ERROR"}, ts \in {"APPROVED", "REDIRECT", "DECLINED"},
                   acs \in {Str(""), Str("https://acs.example/challenge")},
                   threeD \in {{}, {AcsUrlPath, CReqPath}} }
          [] OTHER ->
               failures \cup
               { object(FromPairs(<< <<"status", "SUCCESS">>, <<"transactionId", "tx-op">> >>)),
                 object(FromPairs(<< <<"status", "ERROR">>, <<"reason", "Declined">> >>)) }

(***************************************************************************)
(* handle3DSPayment: getSessionToken -> initPayment -> payment.do          *)
(***************************************************************************)
\* The card object of initPaymentBody and paymentBody: paymentOption.card.*
CardFields(input) ==
    [k \in {"paymentOption.card.cardNumber", "paymentOption.card.cardHolderName",
            "paymentOption.card.expirationMonth", "paymentOption.card.expirationYear",
            "paymentOption.card.CVV", "paymentOption.card.threeD"} |->
        CASE k = "paymentOption.card.cardNumber" -> Get(input, "card.number")
          [] k = "paymentOption.card.cardHolderName" -> Get(input, "card.holderName")
          [] k = "paymentOption.card.expirationMonth" -> Get(input, "card.expMonth")
          [] k = "paymentOption.card.expirationYear" -> Get(input, "card.expYear")
          [] k = "paymentOption.card.CVV" -> Get(input, "card.cvv")
          [] OTHER -> Obj("threeD")]

\* { ...body, paymentOption: { card: { ...card, cardNumber: `****${card.number.slice(-4)}` } } }
MaskCardNumberInLog(body, input) ==
    LET number == Get(input, "card.number").s
        last4 == CASE number = "4000027891380961" -> "0961"
                   [] number = "4012001037141112" -> "1112"
                   [] OTHER -> number
    IN  Put(body, "paymentOption.card.cardNumber", Str("****" \o last4))

\* The body of a getSessionToken call: the ids, and the checksum over
\* [merchantId, merchantSiteId, clientRequestId, timestamp, merchantKey].
SessionTokenBody(input, ms, rnd) ==
    LET timestamp == Str(GenerateTimestamp(ms))
        clientRequestId == Str(GenerateRequestId(ms, rnd))
    IN  [k \in {"merchantId", "merchantSiteId", "clientRequestId", "timeStamp", "checksum"} |->
            CASE k = "merchantId" -> Get(input, "env.merchantId")
              [] k = "merchantSiteId" -> Get(input, "env.merchantSiteId")
              [] k = "clientRequestId" -> clientRequestId
              [] k = "timeStamp" -> timestamp
              [] OTHER -> Str(CalculateChecksum(<< Get(input, "env.merchantId"),
                                                   Get(input, "env.merchantSiteId"),
                                                   clientRequestId, timestamp,
                                                   Get(input, "env.merchantKey") >>))]

\* let stepStatus = 'success'; REDIRECT -> 'redirect'; status !== 'SUCCESS' -> 'error'
PaymentStepStatus(paymentData) ==
    IF Get(paymentData, "transactionStatus") = Str("REDIRECT") THEN "redirect"
    ELSE IF Get(paymentData, "status") # Str("SUCCESS") THEN "error"
    ELSE "success"

\* Mutant: the challenge branch is never taken.
ChallengeRequiredNever(paymentData) == FALSE

\* if (paymentData.transactionStatus === 'REDIRECT' && acsUrl && cReq)
ChallengeRequired(paymentData) ==
    /\ Get(paymentData, "transactionStatus") = Str("REDIRECT")
    /\ Truthy(Get(paymentData, AcsUrlPath))
    /\ Truthy(Get(paymentData, CReqPath))

\* Mutant: the flow is never completed.
FlowOutcomeFailed(paymentData) == "failed"

\* status: paymentData.transactionStatus === 'APPROVED' ? 'completed' : 'failed'
FlowOutcome(paymentData) ==
    IF Get(paymentData, "transactionStatus") = Str("APPROVED") THEN "completed" ELSE "failed"

\* Mutant: no answer stops the flow.
StepFailedNever(data) == FALSE

\* if (sessionData.status !== 'SUCCESS') return ... and the same for initData.
StepFailed(data) == Get(data, "status") # Str("SUCCESS")

Handle3DSPayment(input, ms, rnd, session, init, payment) ==
    LET env(k) == Get(input, "env." \o k)
        Spread(obj1, obj2) == obj2 @@ obj1
        FlowStep(stepId, status, requestBody, responseBody) ==
            [stepId |-> stepId, status |-> status, request |-> JsonStringify(requestBody),
             response |-> responseBody]
        EncodeURIComponent(text) ==
            IF text = "https://acs.example/challenge"
            THEN "https%3A%2F%2Facs.example%2Fchallenge" ELSE text
        caught(calls) == Done(calls, ErrorReply("Payment failed: TypeError"), <<>>)
        featureTestId == IF Get(input, "featureTest").ty = "string"
                         THEN Get(input, "featureTest") ELSE Str("")
        featureOptionValue == IF Get(input, "featureOption").ty = "string"
                              THEN Get(input, "featureOption") ELSE Str("")
        context0 ==
            LET base == [k \in {"amount", "currency", "cardNumber", "cardHolder"} |->
                            CASE k = "amount" -> Get(input, "amount")
                              [] k = "currency" -> Get(input, "currency")
                              [] k = "cardNumber" -> Get(input, "card.number")
                              [] OTHER -> Get(input, "card.holderName")]
                withTest == IF Truthy(featureTestId)
                            THEN Put(base, "featureTest", featureTestId) ELSE base
            IN  IF Truthy(featureOptionValue)
                THEN Put(withTest, "featureOption", featureOptionValue) ELSE withTest
        \* ===== STEP 1: getSessionToken =====  (the three request ids are drawn alike)
        timestamp == Str(GenerateTimestamp(ms))
        clientRequestId == Str(GenerateRequestId(ms, rnd))
        sessionBody == SessionTokenBody(input, ms, rnd)
        call1 == GatewayCall("getSessionToken", sessionBody)
        sessionData == session.body
        step1 == FlowStep("getSessionToken",
                          IF Get(sessionData, "status") = Str("SUCCESS") THEN "success" ELSE "error",
                          sessionBody, sessionData)
        sessionToken == Get(sessionData, "sessionToken")
        context1 == Put(context0, "sessionToken", sessionToken)
        \* ===== STEP 2: initPayment =====
        userTokenId == Str("user_" \o ToString(ms))
        initPaymentBody ==
            Spread(CardFields(input),
                   [k \in {"merchantId", "merchantSiteId", "sessionToken", "clientRequestId",
                           "currency", "amount", "userTokenId", "deviceDetails"} |->
                      CASE k = "merchantId" -> env("merchantId")
                        [] k = "merchantSiteId" -> env("merchantSiteId")
                        [] k = "sessionToken" -> sessionToken
                        [] k = "clientRequestId" -> clientRequestId
                        [] k = "currency" -> Get(input, "currency")
                        [] k = "amount" -> Get(input, "amount")
                        [] k = "userTokenId" -> userTokenId
                        [] OTHER -> Obj("deviceDetails")])
        call2 == GatewayCall("initPayment", initPaymentBody)
        initData == init.body
        step2 == FlowStep("initPayment",
                          IF Get(initData, "status") = Str("SUCCESS") THEN "success" ELSE "error",
                          MaskCardNumberInLog(initPaymentBody, input), initData)
        methodUrl == Get(initData, "paymentOption.card.threeD.methodUrl")
        context2 ==
            Spread(context1,
                   [k \in {"initTransactionId", "threeDVersion", "methodUrl", "methodPayload",
                           "userTokenId", "methodCompletionInd", "platformType",
                           "challengePreference", "challengeWindowSize", "notificationUrlKeys",
                           "methodNotificationUrlMode", "browserDetailsMode"} |->
                      CASE k = "initTransactionId" -> Get(initData, "transactionId")
                        [] k = "threeDVersion" -> Get(initData, "paymentOption.card.threeD.version")
                        [] k = "methodUrl" -> methodUrl
                        [] k = "methodPayload" -> Get(initData, "paymentOption.card.threeD.methodPayload")
                        [] k = "userTokenId" -> userTokenId
                        [] k = "methodCompletionInd" ->
                              IF Truthy(Get(input, "methodCompletionInd"))
                              THEN Get(input, "methodCompletionInd")
                              ELSE IF Truthy(methodUrl) THEN Str("Y") ELSE Str("U")
                        [] k = "platformType" ->
                              IF featureTestId = Str("platformType")
                                 /\ featureOptionValue \in {Str("01"), Str("02")}
                              THEN featureOptionValue ELSE Str("02")
                        [] k = "challengePreference" -> Str("01")
                        [] k = "challengeWindowSize" -> Str("05")
                        [] k = "notificationUrlKeys" -> Obj("notificationURL")
                        [] k = "methodNotificationUrlMode" -> Str("on")
                        [] OTHER -> Str("full")])
        \* ===== STEP 3: payment.do =====
        checksum3 == CalculateChecksum(<< env("merchantId"), env("merchantSiteId"),
                                          clientRequestId, Get(input, "amount"),
                                          Get(input, "currency"), timestamp,
                                          env("merchantKey") >>)
        paymentBody ==
            Spread(CardFields(input),
                   [k \in {"sessionToken", "merchantId", "merchantSiteId", "clientRequestId",
                           "timeStamp", "checksum", "currency", "amount",
                           "relatedTransactionId", "transactionType", "billingAddress",
                           "deviceDetails", "urlDetails"} |->
                      CASE k = "sessionToken" -> sessionToken
                        [] k = "merchantId" -> env("merchantId")
                        [] k = "merchantSiteId" -> env("merchantSiteId")
                        [] k = "clientRequestId" -> clientRequestId
                        [] k = "timeStamp" -> timestamp
                        [] k = "checksum" -> Str(checksum3)
                        [] k = "currency" -> Get(input, "currency")
                        [] k = "amount" -> Get(input, "amount")
                        [] k = "relatedTransactionId" -> Get(initData, "transactionId")
                        [] k = "transactionType" -> Str("Auth")
                        [] k = "billingAddress" -> Obj("billingAddress")
                        [] k = "deviceDetails" -> Obj("deviceDetails")
                        [] OTHER -> Obj("urlDetails")])
        call3 == GatewayCall("payment.do", paymentBody)
        paymentData == payment.body
        acsUrl == Get(paymentData, AcsUrlPath)
        cReq == Get(paymentData, CReqPath)
        stepStatus == PaymentStepStatus(paymentData)
        step3 == FlowStep("payment", stepStatus, MaskCardNumberInLog(paymentBody, input),
                          paymentData)
        context3 == Put(Put(Put(context2,
                        "paymentTransactionId", Get(paymentData, "transactionId")),
                        "transactionStatus", Get(paymentData, "transactionStatus")),
                        "authCode", Get(paymentData, "authCode"))
        mirrored == << <<"Payment (3DS)", "payment.do", paymentData>> >>
        failed(stepList, ctx, message) ==
            JsonReply(FromPairs(<< <<"status", "failed">>, <<"error", message>> >>), stepList, ctx)
    IN  IF ~HasCredentials(input) THEN Done(<<>>, ErrorReply("Missing required credentials"), <<>>)
        ELSE IF "card" \notin DOMAIN input THEN caught(<<>>)
        ELSE IF ~ValidGatewayUrl(input) THEN caught(<<>>)
        ELSE IF session.kind # "object" THEN caught(<<call1>>)
        ELSE IF StepFailed(sessionData)
        THEN Done(<<call1>>, failed(<<step1>>, context0, "Failed to get session token"), <<>>)
        ELSE IF init.kind # "object" THEN caught(<<call1, call2>>)
        ELSE IF Get(input, "card.number").ty # "string" THEN caught(<<call1, call2>>)
        ELSE IF StepFailed(initData)
        THEN Done(<<call1, call2>>,
                  failed(<<step1, step2>>, context1, "Failed to initialize payment"), <<>>)
        ELSE IF Get(input, "card.holderName").ty # "string" THEN caught(<<call1, call2>>)
        ELSE IF payment.kind # "object" THEN caught(<<call1, call2, call3>>)
        ELSE IF ChallengeRequired(paymentData)
        THEN Done(<<call1, call2, call3>>,
                  JsonReply([k \in {"status", "challengeUrl", "acsUrl", "cReq"} |->
                               CASE k = "status" -> Str("challenge_required")
                                 [] k = "challengeUrl" ->
                                       Str("/api/3ds-challenge?acsUrl="
                                           \o EncodeURIComponent(JsString(acsUrl))
                                           \o "&creq=" \o EncodeURIComponent(JsString(cReq)))
                                 [] k = "acsUrl" -> acsUrl
                                 [] OTHER -> cReq],
                            <<step1, step2, step3>>,
                            Put(Put(context3, "acsUrl", acsUrl), "cReq", cReq)),
                  mirrored)
        ELSE Done(<<call1, call2, call3>>,
                  JsonReply(Put(EmptyObject, "status", Str(FlowOutcome(paymentData))),
                            <<step1, step2, step3>>, context3),
                  mirrored)

(***************************************************************************)
(* The single-call orchestrators.  Each row of Orchestrators is one        *)
(* handler, read off its code: whether it checks the credentials, the      *)
(* request fields it tests up front, the properties it reads from `env`    *)
(* and `card` before its first fetch (`needs`), whether it fetches a       *)
(* session token, the endpoint it calls, the values it hashes (in order),  *)
(* the body it sends, whether it survives a non-JSON answer, whether       *)
(* building its reply reads result.status, what it mirrors, and the        *)
(* `success` of its reply.  A value is a request field (In), a request     *)
(* field with a default (InOr), a generated id or time stamp (Gen), a      *)
(* literal (Lit), an object literal (Object), an object holding a request  *)
(* field, undefined when the field is falsy (ObjOf), the session token     *)
(* (Token) or the checksum (Sum); a field marked `guarded` is set or       *)
(* hashed only when its value is truthy.  handleCreateUser hashes with     *)
(* calculateChecksumForEndpoint('createUser', ...), whose field order is   *)
(* the one listed; its userStore entry is not modelled.                    *)
(***************************************************************************)
Orchestrators ==
    LET In(k) == [kind |-> "in", key |-> k, default |-> ""]
        InOr(k, d) == [kind |-> "inOr", key |-> k, default |-> d]
        Gen(k) == [kind |-> "gen", key |-> k, default |-> ""]
        Lit(t) == [kind |-> "lit", key |-> t, default |-> ""]
        ObjOf(k) == [kind |-> "objOf", key |-> k, default |-> ""]
        Object(t) == [kind |-> "object", key |-> t, default |-> ""]
        Token == [kind |-> "token", key |-> "", default |-> ""]
        Sum == [kind |-> "checksum", key |-> "", default |-> ""]
        F(name, value) == [name |-> name, value |-> value, guarded |-> FALSE]
        G(name, value) == [name |-> name, value |-> value, guarded |-> TRUE]
        merchant == << F("merchantId", In("env.merchantId")),
                       F("merchantSiteId", In("env.merchantSiteId")) >>
        secret == << F("merchantKey", In("env.merchantKey")) >>
        Row(credentialCheck, required, needs, sessionFetch, endpoint, hashed, body,
            tolerant, readsStatus, mirror, success) ==
            [credentialCheck |-> credentialCheck, required |-> required, needs |-> needs,
             sessionFetch |-> sessionFetch, endpoint |-> endpoint, hashed |-> hashed,
             body |-> body, tolerant |-> tolerant, readsStatus |-> readsStatus,
             mirror |-> mirror, success |-> success]
        operation(withAmount, endpoint, label) ==
            LET money == IF withAmount
                         THEN << F("amount", In("amount")), F("currency", In("currency")) >>
                         ELSE << >>
            IN  Row(FALSE, {"relatedTransactionId"}, {"env"}, FALSE, endpoint,
                    merchant \o << F("clientUniqueId", Gen("clientUniqueId")) >> \o money
                      \o << F("relatedTransactionId", In("relatedTransactionId")),
                            G("authCode", In("authCode")),
                            F("timeStamp", Gen("timeStamp")) >> \o secret,
                    merchant \o << F("clientUniqueId", Gen("clientUniqueId")) >> \o money
                      \o << F("relatedTransactionId", In("relatedTransactionId")),
                            F("timeStamp", Gen("timeStamp")), F("checksum", Sum),
                            G("authCode", In("authCode")),
                            G("urlDetails", ObjOf("notificationUrl")) >>,
                    FALSE, TRUE, <<label, endpoint>>, "status")
    IN  [h \in {"handleLiabilityShift", "handleGetPaymentStatus",
                "handleGetTransactionDetails", "handleSettle", "handleVoid", "handleRefund",
                "handlePayout", "handleGetUserUPOs", "handleAddUPO", "handleCreateUser",
                "handleGetCardDetails"} |->
          CASE h = "handleLiabilityShift" ->            \* part_001 609-691
                 Row(FALSE, {"sessionToken", "relatedTransactionId"},
                     {"env", "card", "card.holderName"}, FALSE, "payment.do",
                     merchant \o << F("clientRequestId", Gen("clientRequestId")),
                                    F("amount", In("amount")), F("currency", In("currency")),
                                    F("timeStamp", Gen("timeStamp")) >> \o secret,
                     << F("sessionToken", In("sessionToken")) >> \o merchant
                       \o << F("clientRequestId", Gen("clientRequestId")),
                             F("timeStamp", Gen("timeStamp")), F("checksum", Sum),
                             F("relatedTransactionId", In("relatedTransactionId")),
                             F("currency", In("currency")), F("amount", In("amount")),
                             F("transactionType", Lit("Auth")),
                             F("paymentOption.card.cardNumber", In("card.number")),
                             F("paymentOption.card.cardHolderName", In("card.holderName")),
                             F("paymentOption.card.expirationMonth", In("card.expMonth")),
                             F("paymentOption.card.expirationYear", In("card.expYear")),
                             F("paymentOption.card.CVV", In("card.cvv")),
                             F("billingAddress", Object("billingAddress")),
                             F("deviceDetails", Object("deviceDetails")) >>,
                     TRUE, TRUE, <<"Payment (Post 3DS)", "payment.do">>, "approved")
            [] h = "handleGetPaymentStatus" ->          \* part_001 694-722
                 Row(FALSE, {"sessionToken"}, {"env"}, FALSE, "getPaymentStatus", << >>,
                     merchant \o << F("sessionToken", In("sessionToken")) >>,
                     FALSE, FALSE, <<"Payment Status", "getPaymentStatus">>, "always")
            [] h = "handleGetTransactionDetails" ->     \* part_001 725-764
                 Row(FALSE, {"transactionId"}, {"env"}, FALSE, "getTransactionDetails",
                     merchant \o << F("transactionId", In("transactionId")),
                                    F("timeStamp", Gen("timeStamp")) >> \o secret,
                     merchant \o << F("transactionId", In("transactionId")),
                                    F("timeStamp", Gen("timeStamp")), F("checksum", Sum) >>,
                     FALSE, FALSE, <<"Transaction Details", "getTransactionDetails">>, "always")
            [] h = "handleSettle" ->                    \* part_001 767-828
                 operation(TRUE, "settleTransaction", "Settle Response")
            [] h = "handleVoid" ->                      \* part_001 831-889
                 operation(FALSE, "voidTransaction", "Void Response")
            [] h = "handleRefund" ->                    \* part_001 892-953
                 operation(TRUE, "refundTransaction", "Refund Response")
            [] h = "handlePayout" ->                    \* part_001 1167-1235
                 Row(TRUE, {"userTokenId", "amount", "userPaymentOptionId"}, {}, FALSE,
                     "payout.do",
                     merchant \o << F("clientRequestId", Gen("clientRequestId")),
                                    F("amount", In("amount")),
                                    F("currency", InOr("currency", "USD")),
                                    F("timeStamp", Gen("timeStamp")) >> \o secret,
                     merchant \o << F("clientRequestId", Gen("clientRequestId")),
                                    F("clientUniqueId", Gen("clientUniqueId")),
                                    F("timeStamp", Gen("timeStamp")),
                                    F("userTokenId", In("userTokenId")),
                                    F("userPaymentOption", Object("userPaymentOption")),
                                    F("amount", In("amount")),
                                    F("currency", InOr("currency", "USD")),
                                    F("checksum", Sum) >>,
                     FALSE, FALSE, <<"Payout Response", "payout">>, "none")
            [] h = "handleGetUserUPOs" ->               \* part_001 1700-1751
                 Row(TRUE, {"userTokenId"}, {}, FALSE, "getUserUPOs",
                     merchant \o << F("userTokenId", In("userTokenId")),
                                    F("clientRequestId", Gen("clientRequestId")),
                                    F("timeStamp", Gen("timeStamp")) >> \o secret,
                     merchant \o << F("userTokenId", In("userTokenId")),
                                    F("clientRequestId", Gen("clientRequestId")),
                                    F("timeStamp", Gen("timeStamp")), F("checksum", Sum) >>,
                     FALSE, TRUE, << >>, "status")
            [] h = "handleAddUPO" ->                    \* part_001 1754-1813
                 Row(TRUE, {"userTokenId", "card"}, {}, FALSE, "addUPOCreditCard",
                     merchant \o << F("userTokenId", In("userTokenId")),
                                    F("clientRequestId", Gen("clientRequestId")),
                                    F("ccCardNumber", In("card.number")),
                                    F("ccExpMonth", In("card.expMonth")),
                                    F("ccExpYear", In("card.expYear")),
                                    F("timeStamp", Gen("timeStamp")) >> \o secret,
                     merchant \o << F("userTokenId", In("userTokenId")),
                                    F("clientRequestId", Gen("clientRequestId")),
                                    F("ccCardNumber", In("card.number")),
                                    F("ccExpMonth", In("card.expMonth")),
                                    F("ccExpYear", In("card.expYear")),
                                    F("ccNameOnCard", In("card.holderName")),
                                    F("timeStamp", Gen("timeStamp")), F("checksum", Sum) >>,
                     FALSE, TRUE, << >>, "status")
            [] h = "handleCreateUser" ->                \* part_001 1888-1970
                 Row(TRUE, {"userTokenId", "email", "firstName", "lastName", "countryCode"},
                     {}, FALSE, "createUser",
                     merchant \o << F("clientRequestId", Gen("clientRequestId")),
                                    F("userTokenId", In("userTokenId")),
                                    F("email", In("email")),
                                    F("countryCode", In("countryCode")),
                                    F("firstName", In("firstName")),
                                    F("lastName", In("lastName")),
                                    F("timeStamp", Gen("timeStamp")) >> \o secret,
                     merchant \o << F("clientRequestId", Gen("clientRequestId")),
                                    F("userTokenId", In("userTokenId")),
                                    F("email", In("email")),
                                    F("countryCode", In("countryCode")),
                                    F("firstName", In("firstName")),
                                    F("lastName", In("lastName")),
                                    F("timeStamp", Gen("timeStamp")), F("checksum", Sum),
                                    G("phone", In("phone")) >>,
                     FALSE, TRUE, << >>, "status")
            [] OTHER ->                                 \* handleGetCardDetails, part_001 2046-2122
                 Row(TRUE, {"cardNumber"}, {}, TRUE, "getCardDetails", << >>,
                     << F("sessionToken", Token) >> \o merchant
                       \o << F("clientRequestId", Gen("clientRequestId")),
                             F("cardNumber", In("cardNumber")),
                             F("timeStamp", Gen("timeStamp")) >>,
                     FALSE, TRUE, << >>, "status")]

\* The handler fetches a session token: it is one that does, and the caller gave none.
FetchesSessionToken(row, input) == row.sessionFetch /\ ~Truthy(Get(input, "sessionToken"))

\* One call of the handler `row` describes.
RunOrchestrator(row, input, ms, rnd, session, final) ==
    LET caught(calls, mirrored) == Done(calls, ErrorReply("Request failed: TypeError"), mirrored)
        fetches == FetchesSessionToken(row, input)
        sessionCall == GatewayCall("getSessionToken", SessionTokenBody(input, ms, rnd))
        token == IF fetches THEN Get(session.body, "sessionToken")
                 ELSE Get(input, "sessionToken")
        Value(v, sum) ==
            CASE v.kind = "in" -> Get(input, v.key)
              [] v.kind = "inOr" -> IF Truthy(Get(input, v.key)) THEN Get(input, v.key)
                                    ELSE Str(v.default)
              [] v.kind = "gen" ->
                    IF v.key = "clientRequestId" THEN Str(GenerateRequestId(ms, rnd))
                    ELSE IF v.key = "timeStamp" THEN Str(GenerateTimestamp(ms))
                    ELSE Str("id_" \o ToString(ms))
              [] v.kind = "lit" -> Str(v.key)
              [] v.kind = "object" -> Obj(v.key)
              [] v.kind = "objOf" -> IF Truthy(Get(input, v.key)) THEN Obj(v.key) ELSE Undefined
              [] v.kind = "token" -> token
              [] OTHER -> sum
        Kept(fields) ==
            SelectSeq(fields, LAMBDA f : ~f.guarded \/ Truthy(Value(f.value, Undefined)))
        hashed == Kept(row.hashed)
        checksum == Str(CalculateChecksum([i \in 1..Len(hashed) |->
                                              Value(hashed[i].value, Undefined)]))
        sent == Kept(row.body)
        body == [n \in {sent[i].name : i \in 1..Len(sent)} |->
                    Value(sent[CHOOSE i \in 1..Len(sent) : sent[i].name = n].value, checksum)]
        calls == (IF fetches THEN <<sessionCall>> ELSE << >>)
                 \o << GatewayCall(row.endpoint, body) >>
        data == IF final.kind = "notJson"
                THEN FromPairs(<< <<"rawBody", "<html>Bad Gateway</html>">>,
                                  <<"parseError", "Non-JSON response from payment.do">> >>)
                     @@ [k \in {"httpStatus"} |-> Num(ToString(final.httpStatus))]
                ELSE final.body
        mirrored == IF row.mirror = << >> THEN << >>
                    ELSE << <<row.mirror[1], row.mirror[2], data>> >>
        Bool(b) == [ty |-> "boolean", s |-> IF b THEN "true" ELSE "false"]
        succeeded == Get(data, "status") = Str("SUCCESS")
        reply ==
            JsonReply(CASE row.success = "always" -> Put(data, "success", Bool(TRUE))
                        [] row.success = "status" -> Put(data, "success", Bool(succeeded))
                        [] row.success = "approved" ->
                              Put(data, "success",
                                  Bool(succeeded /\ Get(data, "transactionStatus") = Str("APPROVED")))
                        [] OTHER -> data,
                      << >>, EmptyObject)
    IN  IF row.credentialCheck /\ ~HasCredentials(input)
        THEN Done(<< >>, ErrorReply("Missing merchant credentials"), << >>)
        ELSE IF \E k \in row.required : ~Truthy(Get(input, k))
        THEN Done(<< >>, ErrorReply("Missing required fields"), << >>)
        ELSE IF \E k \in row.needs : k \notin DOMAIN input THEN caught(<< >>, << >>)
        ELSE IF ~ValidGatewayUrl(input) THEN caught(<< >>, << >>)
        ELSE IF fetches /\ session.kind # "object" THEN caught(<<sessionCall>>, << >>)
        ELSE IF fetches /\ ~Truthy(token)
        THEN Done(<<sessionCall>>, ErrorReply("Failed to get session token"), << >>)
        ELSE IF final.kind = "transportError" THEN caught(calls, << >>)
        ELSE IF final.kind = "notJson" /\ ~row.tolerant THEN caught(calls, << >>)
        ELSE IF final.kind = "null" /\ row.readsStatus THEN caught(calls, mirrored)
        ELSE Done(calls, reply, mirrored)


(***************************************************************************)
(* handleApmPayment: getSessionToken -> rule table -> payment.do           *)
(***************************************************************************)
\* getApmRules(paymentMethod): the first rule whose keyword the lower-cased method
\* name includes, or NoApmRule.  `includes` is tabulated on the methods of the model.
NoApmRule == [keyword |-> "", requiredFields |-> << >>, countries |-> {}, currencies |-> {}]
GetApmRules(paymentMethod) ==
    LET Rule(keyword, requiredFields, countries, currencies) ==
            [keyword |-> keyword, requiredFields |-> requiredFields,
             countries |-> countries, currencies |-> currencies]
        rules ==
            << Rule("ach", <<"AccountNumber", "RoutingNumber", "SECCode">>, {"US"}, {"USD"}),
               Rule("ideal", <<"BIC">>, {"NL"}, {"EUR"}),
               Rule("sofort", << >>, {"AT", "BE", "FR", "DE", "IT", "NL", "SK", "ES", "CH"},
                    {"EUR", "CHF"}),
               Rule("klarna", << >>, {},
                    {"CHF", "CZK", "DKK", "EUR", "GBP", "NOK", "PLN", "RON", "SEK"}),
               Rule("moneybookers", <<"account_id">>, {}, {}),
               Rule("neteller", <<"account_id", "nettelerAccount">>, {}, {}),
               Rule("paywithbanktransfer", << >>, {"GB"}, {"GBP"}),
               Rule("open_banking", <<"bankId">>, {}, {}),
               Rule("instant_open_banking", <<"bankId">>, {}, {}) >>
        included == CASE paymentMethod = "apmgw_ACH" -> {"ach"}
                      [] paymentMethod = "apmgw_iDeal" -> {"ideal"}
                      [] paymentMethod = "apmgw_Sofort" -> {"sofort"}
                      [] OTHER -> {}
        matching == { i \in 1..Len(rules) : rules[i].keyword \in included }
    IN  IF matching = {} THEN NoApmRule
        ELSE rules[CHOOSE i \in matching : \A j \in matching : i <= j]

\* The required fields of the rule that paymentMethodFields does not hold, in order.
MissingApmFields(input) ==
    SelectSeq(GetApmRules(Get(input, "paymentMethod").s).requiredFields,
              LAMBDA f : ~Truthy(Get(input, "paymentMethodFields." \o f)))

\* The request breaks the rule of its method: country or currency outside the
\* rule's list, or a required field not given.
ViolatesApmRule(input) ==
    LET rule == GetApmRules(Get(input, "paymentMethod").s)
    IN  \/ rule.countries # {} /\ JsString(Get(input, "country")) \notin rule.countries
        \/ rule.currencies # {} /\ JsString(Get(input, "currency")) \notin rule.currencies
        \/ MissingApmFields(input) # << >>

HandleApmPayment(input, ms, rnd, session, final) ==
    LET env(k) == Get(input, "env." \o k)
        caught(calls, mirrored) ==
            Done(calls, ErrorReply("APM Payment failed: TypeError"), mirrored)
        paymentMethod == Get(input, "paymentMethod")
        rule == GetApmRules(paymentMethod.s)
        sessionCall == GatewayCall("getSessionToken", SessionTokenBody(input, ms, rnd))
        sessionToken == Get(session.body, "sessionToken")
        timestamp2 == Str(GenerateTimestamp(ms))
        clientRequestId2 == Str(GenerateRequestId(ms, rnd))
        paymentChecksum ==
            CalculateChecksum(<< env("merchantId"), env("merchantSiteId"), clientRequestId2,
                                 Get(input, "amount"), Get(input, "currency"), timestamp2,
                                 env("merchantKey") >>)
        RECURSIVE Joined(_)
        Joined(fields) == IF Len(fields) = 1 THEN fields[1]
                          ELSE fields[1] \o ", " \o Joined(Tail(fields))
        methodFields == { k \in DOMAIN input :
                            \E f \in {"BIC", "AccountNumber", "RoutingNumber", "SECCode"} :
                               k = "paymentMethodFields." \o f }
        paymentRequest ==
            [k \in {"paymentOption.alternativePaymentMethod." \o f :
                       f \in {"BIC", "AccountNumber", "RoutingNumber", "SECCode"}} |->
                Undefined]
            @@ [k \in {"sessionToken", "merchantId", "merchantSiteId", "clientRequestId",
                       "clientUniqueId", "userTokenId", "timeStamp", "checksum", "amount",
                       "currency", "transactionType",
                       "paymentOption.alternativePaymentMethod.paymentMethod",
                       "billingAddress", "userDetails", "deviceDetails", "urlDetails"} |->
                  CASE k = "sessionToken" -> sessionToken
                    [] k = "merchantId" -> env("merchantId")
                    [] k = "merchantSiteId" -> env("merchantSiteId")
                    [] k = "clientRequestId" -> clientRequestId2
                    [] k = "clientUniqueId" -> Str("CU_" \o ToString(ms))
                    [] k = "userTokenId" ->
                          IF Truthy(Get(input, "userTokenId")) THEN Get(input, "userTokenId")
                          ELSE Str("test@example.com")
                    [] k = "timeStamp" -> timestamp2
                    [] k = "checksum" -> Str(paymentChecksum)
                    [] k = "amount" -> Get(input, "amount")
                    [] k = "currency" -> Get(input, "currency")
                    [] k = "transactionType" -> Str("Sale")
                    [] k = "paymentOption.alternativePaymentMethod.paymentMethod" -> paymentMethod
                    [] OTHER -> Obj(k)]
        body == [k \in {"BIC", "AccountNumber", "RoutingNumber", "SECCode"} |->
                    Get(input, "paymentMethodFields." \o k)]
        sent == [k \in DOMAIN paymentRequest |->
                    IF k \in {"paymentOption.alternativePaymentMethod." \o f : f \in DOMAIN body}
                    THEN body[CHOOSE f \in DOMAIN body :
                                 k = "paymentOption.alternativePaymentMethod." \o f]
                    ELSE paymentRequest[k]]
        calls == <<sessionCall, GatewayCall("payment.do", sent)>>
        result == final.body
        mirrored == << <<"APM Payment", "payment.do", result>> >>
        Bool(b) == [ty |-> "boolean", s |-> IF b THEN "true" ELSE "false"]
        redirected == \/ Truthy(Get(result, "redirectUrl"))
                      \/ Get(result, "transactionStatus") = Str("REDIRECT")
    IN  IF ~HasCredentials(input)
        THEN Done(<< >>, ErrorReply("Missing merchant credentials"), << >>)
        ELSE IF ~Truthy(paymentMethod) THEN Done(<< >>, ErrorReply("Missing paymentMethod"), << >>)
        ELSE IF ~ValidGatewayUrl(input) THEN caught(<< >>, << >>)
        ELSE IF session.kind # "object" THEN caught(<<sessionCall>>, << >>)
        ELSE IF ~Truthy(sessionToken)
        THEN Done(<<sessionCall>>,
                  JsonReply(Put(EmptyObject, "error",
                                Str("Failed to get session token for APM payment")),
                            << >>, EmptyObject),
                  << >>)
        ELSE IF rule.countries # {} /\ JsString(Get(input, "country")) \notin rule.countries
        THEN Done(<<sessionCall>>,
                  ErrorReply("Country " \o JsString(Get(input, "country"))
                             \o " not supported for " \o paymentMethod.s), << >>)
        ELSE IF rule.currencies # {} /\ JsString(Get(input, "currency")) \notin rule.currencies
        THEN Done(<<sessionCall>>,
                  ErrorReply("Currency " \o JsString(Get(input, "currency"))
                             \o " not supported for " \o paymentMethod.s), << >>)
        ELSE IF MissingApmFields(input) # << >>
        THEN Done(<<sessionCall>>,
                  ErrorReply("Missing required fields for " \o paymentMethod.s \o ": "
                             \o Joined(MissingApmFields(input))), << >>)
        ELSE IF final.kind \in {"transportError", "notJson"} THEN caught(calls, << >>)
        ELSE IF final.kind = "null" THEN caught(calls, mirrored)
        ELSE Done(calls,
                  JsonReply(Put(result, "success",
                                Bool(\/ redirected
                                     \/ /\ Get(result, "status") = Str("SUCCESS")
                                        /\ Get(result, "transactionStatus") # Str("DECLINED"))),
                            << >>, EmptyObject),
                  mirrored)


(***************************************************************************)
(* Requests to the orchestrators: the complete request and the requests    *)
(* that leave something out.                                               *)
(***************************************************************************)
FullRequest ==
    FromPairs(<< <<"env.merchantId", "m-1">>, <<"env.merchantSiteId", "s-1">>,
                 <<"env.merchantKey", "key-1">>, <<"env.baseUrl", "https://ppp-test.nuvei.com">>,
                 <<"card.number", "4000027891380961">>, <<"card.holderName", "John Doe">>,
                 <<"card.expMonth", "12">>, <<"card.expYear", "2030">>, <<"card.cvv", "217">>,
                 <<"amount", "10.00">>, <<"currency", "EUR">>,
                 <<"notificationUrl", "https://lab.example/api/3ds-notify">>,
                 <<"sessionToken", "st-0">>, <<"relatedTransactionId", "tx-0">>,
                 <<"transactionId", "tx-0">>, <<"authCode", "A0">>,
                 <<"userTokenId", "user-1">>, <<"userPaymentOptionId", "upo-1">>,
                 <<"email", "jd@example.com">>, <<"firstName", "John">>,
                 <<"lastName", "Doe">>, <<"countryCode", "NL">>,
                 <<"cardNumber", "4000027891380961">> >>)
    @@ [k \in {"env", "card"} |-> Obj(k)]

\* The request without the properties of `keys` (an omitted object takes its
\* properties with it).
Without(fields, keys) ==
    [k \in {k \in DOMAIN fields :
              /\ k \notin keys
              /\ ("env" \in keys => k \notin {"env.merchantId", "env.merchantSiteId",
                                               "env.merchantKey", "env.baseUrl"})
              /\ ("card" \in keys => k \notin {"card.number", "card.holderName",
                                                "card.expMonth", "card.expYear", "card.cvv"})}
       |-> fields[k]]

PaymentRequests ==
    { Without(FullRequest, keys) :
        keys \in { {}, {"env"}, {"env.merchantKey"}, {"env.baseUrl"}, {"card"},
                   {"card.number"}, {"card.holderName"}, {"amount"}, {"notificationUrl"} } }
    \cup { FromPairs(<< <<"featureTest", "platformType">>, <<"featureOption", "01">> >>)
           @@ FullRequest }

\* APM requests: each rule kept, each way of breaking one, a method with no rule.
ApmRequests ==
    LET Apm(method, country, currency, fields) ==
            FromPairs(<< <<"paymentMethod", method>>, <<"country", country>>,
                         <<"currency", currency>> >>)
            @@ [k \in {"paymentMethodFields." \o f : f \in fields} |-> Str("given")]
            @@ FullRequest
    IN  { Apm("apmgw_iDeal", "NL", "EUR", {"BIC"}),
          Apm("apmgw_iDeal", "NL", "EUR", {}),
          Apm("apmgw_iDeal", "US", "EUR", {"BIC"}),
          Apm("apmgw_iDeal", "NL", "USD", {"BIC"}),
          Apm("apmgw_ACH", "US", "USD", {"AccountNumber"}),
          Apm("apmgw_Sofort", "NL", "EUR", {}),
          Apm("apmgw_expresscheckout", "US", "USD", {}),
          Without(Apm("apmgw_iDeal", "NL", "EUR", {"BIC"}), {"env.merchantKey"}),
          FullRequest }

\* The requests to a single-call orchestrator: the complete one, and one for each
\* thing the handler tests or reads optionally, with that thing left out.
OrchestratorRequests(row) ==
    LET optional == { row.body[i].value.key :
                        i \in { i \in 1..Len(row.body) :
                                  \/ row.body[i].guarded
                                  \/ row.body[i].value.kind \in {"objOf", "inOr"} } }
        token == IF row.sessionFetch THEN {"sessionToken"} ELSE {}
    IN  { Without(FullRequest, keys) :
            keys \in { {} } \cup
                     { {k} : k \in row.required \cup row.needs \cup optional \cup token \cup
                                    {"env", "env.merchantKey", "env.baseUrl"} } }

(***************************************************************************)
(* SpecOrchestrators: calls of the worker's orchestrators.                 *)
(***************************************************************************)
\* The handler ran to its return: what it mirrored is in the store (storeInternalDmn)
\* before the reply is returned.
Orchestrate(handler, input, replies, done, ms, rnd) ==
    /\ clock' = ms
    /\ invocation' = [handler |-> handler, input |-> input, outbound |-> done.outbound,
                      gateway |-> SubSeq(replies, 1, Len(done.outbound)),
                      reply |-> done.reply]
    /\ IF done.mirror = <<>>
       THEN UNCHANGED <<webhookStore, inserted>>
       ELSE LET dmn == InternalDmnRecord(done.mirror[1][1], done.mirror[1][2],
                                         done.mirror[1][3], ms, rnd)
            IN  /\ webhookStore' = UnshiftAndTrim(webhookStore, dmn, InternalDmnCapacity)
                /\ inserted' = Append(inserted, dmn)
    /\ response' = [handler |-> handler, status |-> done.reply.http, body |-> "",
                    webhooks |-> <<>>, count |-> 0]
    /\ UNCHANGED request
    /\ UNCHANGED scenarioVars

MaxOrchestrations == 1

\* The replies to a fetch the handler reaches only after `earlier` was answered
\* with a JSON object: no reply is drawn for a fetch that is never issued.
RepliesAfter(earlier, endpoint) ==
    IF earlier.kind = "object" THEN GatewayReplies(endpoint)
    ELSE { [kind |-> "unsent", httpStatus |-> 0, body |-> EmptyObject] }

Payment3DS ==
    /\ clock < MaxOrchestrations
    /\ \E input \in PaymentRequests, rnd \in RandomSuffixes,
          session \in GatewayReplies("getSessionToken") :
          \E init \in RepliesAfter(session, "initPayment") :
             \E payment \in RepliesAfter(init, "payment.do") :
                Orchestrate("handle3DSPayment", input, <<session, init, payment>>,
                            Handle3DSPayment(input, clock + 1, rnd, session, init, payment),
                            clock + 1, rnd)
    /\ UNCHANGED appVars
    /\ UNCHANGED auxVars

SingleCall ==
    /\ clock < MaxOrchestrations
    /\ \E h \in DOMAIN Orchestrators :
          \E input \in OrchestratorRequests(Orchestrators[h]), rnd \in RandomSuffixes,
             final \in GatewayReplies(Orchestrators[h].endpoint) :
             \E session \in IF FetchesSessionToken(Orchestrators[h], input)
                            THEN GatewayReplies("getSessionToken") ELSE {final} :
                Orchestrate(h, input,
                            IF FetchesSessionToken(Orchestrators[h], input)
                            THEN <<session, final>> ELSE <<final>>,
                            RunOrchestrator(Orchestrators[h], input, clock + 1, rnd,
                                            session, final),
                            clock + 1, rnd)
    /\ UNCHANGED appVars
    /\ UNCHANGED auxVars

ApmPayment ==
    /\ clock < MaxOrchestrations
    /\ \E input \in ApmRequests, rnd \in RandomSuffixes,
          session \in GatewayReplies("getSessionToken") :
          \E final \in RepliesAfter(session, "payment.do") :
             Orchestrate("handleApmPayment", input, <<session, final>>,
                         HandleApmPayment(input, clock + 1, rnd, session, final),
                         clock + 1, rnd)
    /\ UNCHANGED appVars
    /\ UNCHANGED auxVars

InitOrchestrators == StoreInit /\ ScenarioIdle /\ WorkerIdle

NextOrchestrators ==
    \/ Payment3DS
    \/ SingleCall
    \/ ApmPayment

SpecOrchestrators == InitOrchestrators /\ [][NextOrchestrators]_vars


(***************************************************************************)
(* SpecFlows: the two flow engines that return a context snapshot.  A      *)
(* behaviour serves requests of one entry point: the scenario engine runs  *)
(* while no orchestrator has been called, handle3DSPayment while the       *)
(* scenario engine is idle.                                                *)
(***************************************************************************)
ScenarioFlow == invocation = NoInvocation /\ NextScenario

PaymentFlow == pc = "idle" /\ Payment3DS

NextFlows ==
    \/ ScenarioFlow
    \/ PaymentFlow

SpecFlows == InitOrchestrators /\ [][NextFlows]_vars


(***************************************************************************)
(* SpecApp: the 3DS part of the frontend (App.tsx) against the worker.     *)
(***************************************************************************)
MaxAppCalls == 2
MaxMessages == 2

\* requestPayload of run3DSFlow: { env, card, amount, currency, notificationUrl, ... }
AppPayload ==
    Without(FullRequest, {"sessionToken", "relatedTransactionId", "transactionId", "authCode",
                          "userTokenId", "userPaymentOptionId", "email", "firstName",
                          "lastName", "countryCode", "cardNumber"})

\* What the gateway answers to the n-th flow: it issues a new session token and a
\* new transaction id for every flow.
FlowReplies(endpoint, n) ==
    LET object(b) == [kind |-> "object", httpStatus |-> 200, body |-> b]
        redirect == [k \in {"status", "transactionStatus", "transactionId", AcsUrlPath, CReqPath} |->
                       CASE k = "status" -> Str("SUCCESS")
                         [] k = "transactionStatus" -> Str("REDIRECT")
                         [] k = "transactionId" -> Str("tx-pay-" \o ToString(n))
                         [] k = AcsUrlPath -> Str("https://acs.example/challenge")
                         [] OTHER -> Str("creq-token")]
    IN  CASE endpoint = "getSessionToken" ->
               { object(FromPairs(<< <<"status", "SUCCESS">>,
                                     <<"sessionToken", "st-" \o ToString(n)>> >>)),
                 object(FromPairs(<< <<"status", "ERROR">>, <<"reason", "Invalid checksum">> >>)) }
          [] endpoint = "initPayment" ->
               { object(FromPairs(<< <<"status", "SUCCESS">>,
                                     <<"transactionId", "tx-init-" \o ToString(n)>> >>)),
                 object(FromPairs(<< <<"status", "SUCCESS">> >>)) }
          [] OTHER ->
               { object(redirect),
                 object(FromPairs(<< <<"status", "SUCCESS">>, <<"transactionStatus", "APPROVED">>,
                                     <<"transactionId", "tx-pay-" \o ToString(n)>> >>)) }

PendingFromPaymentId(result) ==
    [set |-> TRUE,
     fields |-> FromPairs(<< <<"sessionToken", JsString(Get(result.context, "sessionToken"))>>,
                             <<"initPaymentTransactionId",
                               JsString(Get(result.context, "paymentTransactionId"))>> >>)]

\* setPendingLiabilityShift({ sessionToken: String(result.context.sessionToken),
\*   initPaymentTransactionId: String(result.context.initTransactionId), card, amount, currency })
PendingFromResult(result) ==
    [set |-> TRUE,
     fields |-> FromPairs(<< <<"sessionToken", JsString(Get(result.context, "sessionToken"))>>,
                             <<"initPaymentTransactionId",
                               JsString(Get(result.context, "initTransactionId"))>> >>)]

\* run3DSFlow from the reply on: pendingLiabilityShift is set when the flow needs a
\* challenge and the context holds the token and the initPayment transaction id;
\* it is cleared nowhere in run3DSFlow.
NextPending(result, pending) ==
    IF Truthy(Get(result.fields, "error")) THEN pending
    ELSE IF /\ Get(result.fields, "status") = Str("challenge_required")
            /\ Truthy(Get(result.fields, "challengeUrl"))
            /\ Truthy(Get(result.context, "sessionToken"))
            /\ Truthy(Get(result.context, "initTransactionId"))
    THEN PendingFromResult(result)
    ELSE pending

\* The body runLiabilityShift posts: env, the pending token and transaction id, the card.
LiabilityShiftPayload(pending) ==
    FromPairs(<< <<"sessionToken", pending.fields["sessionToken"].s>>,
                 <<"relatedTransactionId", pending.fields["initPaymentTransactionId"].s>> >>)
    @@ Without(AppPayload, {"notificationUrl"})

\* run3DSFlow: POST /api/payment/3ds, then the state updates on the reply.
Run3DSFlow ==
    /\ clock < MaxAppCalls
    /\ \E rnd \in RandomSuffixes,
          session \in FlowReplies("getSessionToken", clock + 1),
          init \in FlowReplies("initPayment", clock + 1),
          payment \in FlowReplies("payment.do", clock + 1) :
          LET done == Handle3DSPayment(AppPayload, clock + 1, rnd, session, init, payment)
          IN  /\ Orchestrate("handle3DSPayment", AppPayload, <<session, init, payment>>, done,
                             clock + 1, rnd)
              /\ pendingLiabilityShift' = NextPending(done.reply, pendingLiabilityShift)
              /\ challenged' =
                    IF Get(done.reply.fields, "status") = Str("challenge_required")
                    THEN challenged \cup
                         { [sessionToken |-> Get(session.body, "sessionToken"),
                            initTransactionId |-> Get(init.body, "transactionId")] }
                    ELSE challenged
    /\ UNCHANGED <<pendingLiabilityShiftRef, timers, awaiting, messages, posts, auxVars>>

\* useEffect(() => { pendingLiabilityShiftRef.current = pendingLiabilityShift })
SyncPendingRef ==
    /\ pendingLiabilityShiftRef # pendingLiabilityShift
    /\ pendingLiabilityShiftRef' = pendingLiabilityShift
    /\ UNCHANGED <<storeVars, scenarioVars, invocation, pendingLiabilityShift, timers,
                   awaiting, messages, challenged, posts, auxVars>>

\* handleMessage: a '3ds-complete' message with success schedules runLiabilityShift
\* when the ref holds a pending flow; any other message schedules nothing.
HandleMessage ==
    /\ Len(messages) < MaxMessages
    /\ \E data \in { [type |-> "3ds-complete", success |-> TRUE],
                       [type |-> "3ds-complete", success |-> FALSE],
                       [type |-> "apm-return", success |-> TRUE] } :
          /\ messages' = Append(messages, data)
          /\ timers' = IF /\ data.type = "3ds-complete"
                          /\ data.success
                          /\ pendingLiabilityShiftRef.set
                       THEN timers + 1 ELSE timers
    /\ UNCHANGED <<storeVars, scenarioVars, invocation, pendingLiabilityShift,
                   pendingLiabilityShiftRef, awaiting, challenged, posts, auxVars>>

\* The timer fires: runLiabilityShift up to its fetch.  The worker serves the POST
\* with handleLiabilityShift unless the fetch is rejected.
RunLiabilityShift ==
    /\ timers > 0
    /\ timers' = timers - 1
    /\ IF ~pendingLiabilityShiftRef.set
       THEN UNCHANGED <<storeVars, scenarioVars, invocation, awaiting, posts>>
       ELSE /\ clock < MaxAppCalls
            /\ posts' = Append(posts, LiabilityShiftPayload(pendingLiabilityShiftRef))
            /\ \E rnd \in RandomSuffixes, final \in FlowReplies("payment.do", clock + 1),
                  served \in BOOLEAN :
                  IF served
                  THEN LET row == Orchestrators["handleLiabilityShift"]
                           input == LiabilityShiftPayload(pendingLiabilityShiftRef)
                       IN  /\ Orchestrate("handleLiabilityShift", input, <<final>>,
                                          RunOrchestrator(row, input, clock + 1, rnd, final, final),
                                          clock + 1, rnd)
                           /\ awaiting' = awaiting + 1
                  ELSE UNCHANGED <<storeVars, scenarioVars, invocation, awaiting>>
    /\ UNCHANGED <<pendingLiabilityShift, pendingLiabilityShiftRef, messages, challenged, auxVars>>

\* runLiabilityShift after `await response.json()`: the pending flow is cleared.
LiabilityShiftReply ==
    /\ awaiting > 0
    /\ awaiting' = awaiting - 1
    /\ pendingLiabilityShift' = NoPending
    /\ pendingLiabilityShiftRef' = NoPending
    /\ UNCHANGED <<storeVars, scenarioVars, invocation, timers, messages, challenged, posts, auxVars>>

\* POST /api/payment/liability-shift from any other client of the worker.
LiabilityShiftRequest ==
    /\ clock < MaxAppCalls
    /\ \E input \in OrchestratorRequests(Orchestrators["handleLiabilityShift"]),
          rnd \in RandomSuffixes, final \in FlowReplies("payment.do", clock + 1) :
          Orchestrate("handleLiabilityShift", input, <<final>>,
                      RunOrchestrator(Orchestrators["handleLiabilityShift"], input, clock + 1,
                                      rnd, final, final),
                      clock + 1, rnd)
    /\ UNCHANGED appVars
    /\ UNCHANGED auxVars

NextApp ==
    \/ Run3DSFlow
    \/ SyncPendingRef
    \/ HandleMessage
    \/ RunLiabilityShift
    \/ LiabilityShiftReply
    \/ LiabilityShiftRequest

SpecApp == InitOrchestrators /\ [][NextApp]_vars

(***************************************************************************)
(* The checksum library and the registry helpers as functions of their     *)
(* arguments.                                                              *)
(***************************************************************************)
\* String.prototype.endsWith and startsWith.
EndsWith(s, suffix) ==
    Len(s) >= Len(suffix) /\ SubSeq(s, Len(s) - Len(suffix) + 1, Len(s)) = suffix

StartsWith(s, prefix) == Len(s) >= Len(prefix) /\ SubSeq(s, 1, Len(prefix)) = prefix

\* The path of a registry entry: '/payment.do' for the key 'payment.do',
\* '/getSessionToken.do' for the key 'getSessionToken'.
EndpointPath(key) == IF EndsWith(key, ".do") THEN "/" \o key ELSE "/" \o key \o ".do"

\* getEndpointSpec found nothing (undefined).
NoSpec == [undefined |-> TRUE]

\* Names every object literal inherits; what the key lookup yields for them
\* is truthy and has neither requiresChecksum nor checksumFields.
InheritedNames == {"constructor", "toString"}

InheritedProperty == [inherited |-> TRUE]

\* getEndpointSpec: a lookup by key, then a lookup by path.
GetEndpointSpec(nameOrPath) ==
    IF nameOrPath \in DOMAIN ENDPOINT_SPECS THEN ENDPOINT_SPECS[nameOrPath]
    ELSE IF nameOrPath \in InheritedNames THEN InheritedProperty
    ELSE LET pathWithDo == IF EndsWith(nameOrPath, ".do") THEN nameOrPath
                           ELSE nameOrPath \o ".do"
             pathFormatted == IF StartsWith(pathWithDo, "/") THEN pathWithDo
                              ELSE "/" \o pathWithDo
             found == {e \in DOMAIN ENDPOINT_SPECS : EndpointPath(e) = pathFormatted}
         IN  IF found = {} THEN NoSpec ELSE ENDPOINT_SPECS[CHOOSE e \in found : TRUE]

\* spec.requiresChecksum is truthy.
RequiresChecksum(spec) == "requiresChecksum" \in DOMAIN spec /\ spec.requiresChecksum

\* spec.checksumFields.map(f => f.name)
FieldNames(fields) == [i \in 1..Len(fields) |-> fields[i].name]

\* getChecksumFieldOrder that answers with the fields of the session request
\* for every name.
GetChecksumFieldOrderFixed(endpointName) ==
    << "merchantId", "merchantSiteId", "clientRequestId", "timeStamp", "merchantSecretKey" >>

\* getChecksumFieldOrder
GetChecksumFieldOrder(endpointName) ==
    LET spec == GetEndpointSpec(endpointName)
    IN  IF spec = NoSpec \/ ~RequiresChecksum(spec) THEN <<>>
        ELSE FieldNames(spec.checksumFields)

\* The two ways a call ends.
Thrown(message) == [threw |-> TRUE, error |-> message]

Returned(value) == [threw |-> FALSE, value |-> value]

\* calculateChecksumForEndpoint that leaves every optional field out.
CalculateChecksumSkippingOptional(endpointName, requestData, merchantSecretKey, algorithm) ==
    LET spec == GetEndpointSpec(endpointName)
    IN  IF spec = NoSpec
        THEN Thrown("Unknown endpoint: " \o endpointName \o ". Cannot calculate checksum.")
        ELSE IF ~RequiresChecksum(spec)
        THEN Thrown("Endpoint " \o endpointName \o " does not require checksum.")
        ELSE Returned(CalculateChecksumWith(
                 ChecksumValues(SelectSeq(spec.checksumFields, LAMBDA f : f.required),
                                requestData, merchantSecretKey), algorithm))

\* calculateChecksumForEndpoint that answers an unknown name with the
\* checksum of no values.
CalculateChecksumLenient(endpointName, requestData, merchantSecretKey, algorithm) ==
    LET spec == GetEndpointSpec(endpointName)
    IN  IF spec = NoSpec \/ ~RequiresChecksum(spec)
        THEN Returned(CalculateChecksumWith(<<>>, algorithm))
        ELSE Returned(CalculateChecksumWith(
                 ChecksumValues(spec.checksumFields, requestData, merchantSecretKey),
                 algorithm))

\* calculateChecksumForEndpoint that puts the secret in front of the request
\* fields.
CalculateChecksumSecretFirst(endpointName, requestData, merchantSecretKey, algorithm) ==
    LET spec == GetEndpointSpec(endpointName)
    IN  IF spec = NoSpec
        THEN Thrown("Unknown endpoint: " \o endpointName \o ". Cannot calculate checksum.")
        ELSE IF ~RequiresChecksum(spec)
        THEN Thrown("Endpoint " \o endpointName \o " does not require checksum.")
        ELSE Returned(CalculateChecksumWith(
                 << merchantSecretKey >>
                 \o ChecksumValues(SelectSeq(spec.checksumFields,
                                             LAMBDA f : f.name # "merchantSecretKey"),
                                   requestData, merchantSecretKey), algorithm))

\* calculateChecksumForEndpoint with its two errors.
CalculateChecksumForEndpointWith(endpointName, requestData, merchantSecretKey, algorithm) ==
    LET spec == GetEndpointSpec(endpointName)
    IN  IF spec = NoSpec
        THEN Thrown("Unknown endpoint: " \o endpointName \o ". Cannot calculate checksum.")
        ELSE IF ~RequiresChecksum(spec)
        THEN Thrown("Endpoint " \o endpointName \o " does not require checksum.")
        ELSE Returned(CalculateChecksumWith(
                 ChecksumValues(spec.checksumFields, requestData, merchantSecretKey),
                 algorithm))

\* The hexadecimal digests of the texts verifyChecksum is given in the model
\* (the SHA-256 and SHA-1 digests of those texts).
HexDigest(checksum) ==
    CASE checksum = "sha256(m-1s-1REQ_120260101120000key-1)" ->
           "82caf9eafc34f1e4f4fcf6fd8e04d675948b569fb72eec26ace135873795a688"
      [] checksum = "sha1(m-1s-1REQ_120260101120000key-1)" ->
           "ccc5a77d87efc547d5980458a57035ada7fe1eff"
      [] checksum = "sha256(m-1s-120260101120000key-1)" ->
           "33b7c35a701352e0f2f320e002420def9f37eefdfd308f57630d500118947cae"
      [] checksum = "sha1(m-1s-120260101120000key-1)" ->
           "3eb4085c7c246b82fdb2772b024c2e5e79cd14bb"
      [] OTHER -> checksum

\* String.prototype.toLowerCase on the characters of the model.
ToLowerCase(s) ==
    LET upper == "ABCDEFGHIJKLMNOPQRSTUVWXYZ"
        lower == "abcdefghijklmnopqrstuvwxyz"
        Char(c) == IF \E i \in 1..Len(upper) : SubSeq(upper, i, i) = c
                   THEN SubSeq(lower, (CHOOSE i \in 1..Len(upper) : SubSeq(upper, i, i) = c),
                               (CHOOSE i \in 1..Len(upper) : SubSeq(upper, i, i) = c))
                   ELSE c
        RECURSIVE Lower(_)
        Lower(t) == IF t = "" THEN "" ELSE Char(SubSeq(t, 1, 1)) \o Lower(SubSeq(t, 2, Len(t)))
    IN  Lower(s)

\* verifyChecksum that accepts whatever it is given.
VerifyChecksumAlways(endpointName, requestData, providedChecksum, merchantSecretKey, algorithm) ==
    Returned(TRUE)

\* verifyChecksum without its catch.
VerifyChecksumUncaught(endpointName, requestData, providedChecksum, merchantSecretKey, algorithm) ==
    LET calculated == CalculateChecksumForEndpointWith(endpointName, requestData,
                                                       merchantSecretKey, algorithm)
    IN  IF calculated.threw THEN calculated
        ELSE IF providedChecksum.ty # "string"
        THEN Thrown("TypeError: Cannot read properties of undefined (reading 'toLowerCase')")
        ELSE Returned(ToLowerCase(HexDigest(calculated.value)) = ToLowerCase(providedChecksum.s))

\* verifyChecksum: the comparison of the two lower-cased digests, and false
\* for whatever is thrown on the way.
VerifyChecksum(endpointName, requestData, providedChecksum, merchantSecretKey, algorithm) ==
    LET calculated == CalculateChecksumForEndpointWith(endpointName, requestData,
                                                       merchantSecretKey, algorithm)
    IN  IF calculated.threw THEN Returned(FALSE)
        ELSE IF providedChecksum.ty # "string" THEN Returned(FALSE)
        ELSE Returned(ToLowerCase(HexDigest(calculated.value)) = ToLowerCase(providedChecksum.s))

(***************************************************************************)
(* maskSensitiveData of the scenario engine                                *)
(***************************************************************************)
CardPath == "paymentOption.card"
CardNumberPath == "paymentOption.card.cardNumber"
CvvPath == "paymentOption.card.CVV"

\* num.slice(-4): the last four characters, or all of a shorter string.
SliceLast4(num) == SubSeq(num, IF Len(num) > 4 THEN Len(num) - 3 ELSE 1, Len(num))

\* A mask that keeps the length of the number: every character but the last
\* four becomes '*'.
MaskSensitiveDataKeepingLength(data) ==
    LET RECURSIVE Stars(_)
        Stars(n) == IF n <= 0 THEN "" ELSE "*" \o Stars(n - 1)
        num == JsString(Get(data, CardNumberPath))
    IN  IF Truthy(Get(data, CardNumberPath))
        THEN Put(data, CardNumberPath, Str(Stars(Len(num) - 4) \o SliceLast4(num)))
        ELSE data

\* maskSensitiveData: the checksum, the card number and the CVV of a request
\* body are replaced, everything else is copied.
MaskSensitiveData(data) ==
    LET checksumMasked ==
            IF Truthy(Get(data, "checksum")) THEN Put(data, "checksum", Str("***masked***"))
            ELSE data
        hasCard == /\ Truthy(Get(data, "paymentOption"))
                   /\ Get(data, "paymentOption").ty = "object"
                   /\ Truthy(Get(data, CardPath))
                   /\ Get(data, CardPath).ty = "object"
        numberMasked ==
            IF hasCard /\ Truthy(Get(data, CardNumberPath))
            THEN Put(checksumMasked, CardNumberPath,
                     Str("****" \o SliceLast4(JsString(Get(data, CardNumberPath)))))
            ELSE checksumMasked
    IN  IF hasCard /\ Truthy(Get(data, CvvPath)) THEN Put(numberMasked, CvvPath, Str("***"))
        ELSE numberMasked

(***************************************************************************)
(* The library called on its own: each action is one call of one function  *)
(* on arguments drawn from the sets below, recorded in lastCall; a         *)
(* behaviour is one call.                                                  *)
(***************************************************************************)
MaxValues == 3

ChecksumValueSet == {Str("a"), Str("aa"), Str("b"), Str("")}

ValueLists == UNION { [1..n -> ChecksumValueSet] : n \in 0..MaxValues }

HashAlgorithms == {"SHA256", "SHA1"}

\* Registry keys, paths, and names the registry does not hold.
EndpointNames ==
    (DOMAIN ENDPOINT_SPECS)
    \cup {"payment", "/getSessionToken.do", "getSessionToken.do", "unknownEndpoint", "",
          "constructor"}

FullData ==
    FromPairs(<< <<"merchantId", "m-1">>, <<"merchantSiteId", "s-1">>,
                 <<"clientRequestId", "REQ_1">>, <<"timeStamp", "20260101120000">>,
                 <<"amount", "10.00">>, <<"currency", "EUR">>, <<"userTokenId", "user-1">>,
                 <<"clientUniqueId", "ord-1">>, <<"relatedTransactionId", "tx-1">>,
                 <<"authCode", "A0">>, <<"comment", "note">>, <<"urlDetails", "urls">>,
                 <<"email", "a@b.c">>, <<"countryCode", "DE">>, <<"firstName", "Ann">>,
                 <<"lastName", "Lee">>, <<"userPaymentOptionId", "upo-1">>,
                 <<"paymentMethodName", "apmgw_x">>, <<"transactionId", "tx-2">>,
                 <<"sessionToken", "st-1">>, <<"cardNumber", "4111111111111111">> >>)

VariedFields == {"merchantId", "clientRequestId", "amount", "authCode", "comment",
                 "transactionId", "paymentMethodName"}

RequestDatas ==
    {FullData, EmptyObject}
    \cup { Without(FullData, {k}) : k \in VariedFields }
    \cup { Put(FullData, k, v) : k \in VariedFields, v \in {Str(""), Null} }

SecretKeys == {Str("key-1"), Str("")}

\* The string with its i-th character replaced by c.
ReplaceChar(s, i, c) == SubSeq(s, 1, i - 1) \o c \o SubSeq(s, i + 1, Len(s))

AlterChars == "0123456789abcdefABCDEFgG"

\* A digest, and every string that differs from it in one character.
Alterations(digest) ==
    {digest}
    \cup { ReplaceChar(digest, i, SubSeq(AlterChars, c, c)) :
             i \in 1..Len(digest), c \in 1..Len(AlterChars) }

VerifyEndpoints == {"getSessionToken", "/getSessionToken.do", "unknownEndpoint", "verify3d",
                    "getPaymentStatus", "constructor"}

VerifyDatas == {FullData, Without(FullData, {"clientRequestId"})}

\* The checksums handed to verifyChecksum: none, an empty one, the right
\* one, and for the endpoints that have one its one-character alterations.
ProvidedChecksums(endpointName, requestData, algorithm) ==
    LET right == HexDigest(CalculateChecksumWith(
                     ChecksumValues(ENDPOINT_SPECS["getSessionToken"].checksumFields,
                                    requestData, Str("key-1")), algorithm))
    IN  {Undefined, Str(""), Str(right)}
        \cup (IF RequiresChecksum(GetEndpointSpec(endpointName))
              THEN { Str(a) : a \in Alterations(right) } ELSE {})

CardNumbers == {Str(""), Str("123"), Str("4111"), Str("4222222222222"),
                Str("4111111111111111"), Str("4000020951595032"),
                Str("6759649826438453000"), Num("5555555555554444")}

\* Request bodies with and without a checksum, a paymentOption, a card, a
\* card number and a CVV.
RequestBodies ==
    { [k \in {"merchantId"}
                 \cup (IF checksum # Undefined THEN {"checksum"} ELSE {})
                 \cup (IF option # Undefined THEN {"paymentOption"} ELSE {})
                 \cup (IF card # Undefined THEN {CardPath} ELSE {})
                 \cup (IF number # Undefined THEN {CardNumberPath} ELSE {})
                 \cup (IF cvv # Undefined THEN {CvvPath} ELSE {}) |->
              CASE k = "merchantId" -> Str("m-1")
                [] k = "checksum" -> checksum
                [] k = "paymentOption" -> option
                [] k = CardPath -> card
                [] k = CardNumberPath -> number
                [] k = CvvPath -> cvv] :
          checksum \in {Undefined, Str(""), Str("82caf9ea")},
          option \in {Obj("paymentOption")},
          card \in {Obj("card")},
          number \in {Undefined} \cup CardNumbers,
          cvv \in {Undefined, Str("217")} }
    \cup { Put(Put(EmptyObject, "merchantId", Str("m-1")), "paymentOption", option) :
             option \in {Str("card"), Obj("paymentOption")} }
    \cup { Put(Put(Put(EmptyObject, "paymentOption", Obj("paymentOption")), CardPath, Null),
               "checksum", Str("82caf9ea")),
           Put(EmptyObject, "merchantId", Str("m-1")) }

libraryFrame == <<storeVars, scenarioVars, invocation, appVars, inFlight, flows>>

\* calculateChecksum(values, algorithm)
CalculateChecksumCall ==
    /\ lastCall = NoCall
    /\ \E values \in ValueLists, algorithm \in HashAlgorithms :
          lastCall' = [fn |-> "calculateChecksum", values |-> values,
                       algorithm |-> algorithm,
                       result |-> CalculateChecksumWith(values, algorithm)]
    /\ UNCHANGED libraryFrame

\* calculateChecksumForEndpoint(endpointName, requestData, key, algorithm),
\* called twice on the same arguments.
CalculateChecksumForEndpointCall ==
    /\ lastCall = NoCall
    /\ \E endpointName \in EndpointNames, requestData \in RequestDatas,
          merchantSecretKey \in SecretKeys, algorithm \in HashAlgorithms :
          lastCall' = [fn |-> "calculateChecksumForEndpoint", endpointName |-> endpointName,
                       requestData |-> requestData,
                       merchantSecretKey |-> merchantSecretKey, algorithm |-> algorithm,
                       result |-> CalculateChecksumForEndpointWith(
                                      endpointName, requestData, merchantSecretKey, algorithm),
                       again |-> CalculateChecksumForEndpointWith(
                                     endpointName, requestData, merchantSecretKey, algorithm)]
    /\ UNCHANGED libraryFrame

\* verifyChecksum(endpointName, requestData, providedChecksum, key, algorithm)
VerifyChecksumCall ==
    /\ lastCall = NoCall
    /\ \E endpointName \in VerifyEndpoints, requestData \in VerifyDatas,
          algorithm \in HashAlgorithms :
          \E providedChecksum \in ProvidedChecksums(endpointName, requestData, algorithm) :
             lastCall' = [fn |-> "verifyChecksum", endpointName |-> endpointName,
                          requestData |-> requestData,
                          providedChecksum |-> providedChecksum,
                          merchantSecretKey |-> Str("key-1"), algorithm |-> algorithm,
                          result |-> VerifyChecksum(endpointName, requestData,
                                                    providedChecksum, Str("key-1"),
                                                    algorithm)]
    /\ UNCHANGED libraryFrame

\* getChecksumFieldOrder(endpointName)
GetChecksumFieldOrderCall ==
    /\ lastCall = NoCall
    /\ \E endpointName \in EndpointNames :
          lastCall' = [fn |-> "getChecksumFieldOrder", endpointName |-> endpointName,
                       result |-> GetChecksumFieldOrder(endpointName)]
    /\ UNCHANGED libraryFrame

\* maskSensitiveData(requestBody)
MaskSensitiveDataCall ==
    /\ lastCall = NoCall
    /\ \E data \in RequestBodies :
          lastCall' = [fn |-> "maskSensitiveData", data |-> data,
                       result |-> MaskSensitiveData(data)]
    /\ UNCHANGED libraryFrame

(***************************************************************************)
(* SpecInterleaved: the workload of SpecStore with handlers in flight      *)
(* together.  A handler is accepted, is suspended at its await (the        *)
(* request body of handleWebhook, the gateway fetch of an orchestrator),   *)
(* and completes later; the handlers in flight complete in any order, and  *)
(* clears and listings come between any two steps.  inFlight holds the     *)
(* numbers of the suspended calls.                                         *)
(***************************************************************************)
MaxInFlight == 2

\* The calls of the workload that arrive while another is in flight.
Overlapping(c) == c % 100 \in {2, 3}

interleavedFrame == <<scenarioVars, invocation, appVars, lastCall, flows>>

\* A request arrives and its handler runs up to its await.
AcceptCall ==
    LET c == clock + Cardinality(inFlight) + 1
    IN  /\ c <= MaxCalls
        /\ Cardinality(inFlight) < MaxInFlight
        /\ inFlight = {} \/ Overlapping(c)
        /\ inFlight' = inFlight \cup {c}
        /\ UNCHANGED storeVars
        /\ UNCHANGED interleavedFrame

\* handleWebhook resumes after `await request.text()` and runs to its return.
CompleteIngest ==
    \E c \in inFlight :
        /\ WorkloadKind(c) # "mirror"
        /\ \E rnd \in RandomSuffixes : IngestWebhook(WorkloadRequest(c), clock + 1, rnd)
        /\ inFlight' = inFlight \ {c}
        /\ UNCHANGED interleavedFrame

\* An orchestrator resumes after its gateway call and mirrors the response.
CompleteMirror ==
    \E c \in inFlight :
        /\ WorkloadKind(c) = "mirror"
        /\ \E rnd \in RandomSuffixes :
              MirrorInternalDmn("Settle Response", "settleTransaction",
                                FromPairs(<< <<"status", "SUCCESS">>,
                                             <<"transactionId", "tx9">> >>),
                                clock + 1, rnd)
        /\ inFlight' = inFlight \ {c}
        /\ UNCHANGED interleavedFrame

NextInterleaved ==
    \/ AcceptCall
    \/ CompleteIngest
    \/ CompleteMirror
    \/ HandleGetWebhooks
    \/ HandleClearWebhooks

SpecInterleaved == InitStore /\ [][NextInterleaved]_vars

(***************************************************************************)
(* SpecConcurrent: flow invocations in flight together.  flows[p] holds    *)
(* the local variables of the p-th invocation (executeScenario's steps,    *)
(* context, finalStatus and loop position; handle3DSPayment's request and  *)
(* what its fetches returned so far); an action is the code of one         *)
(* invocation from one await to the next, and the invocations take their   *)
(* steps in any order.                                                     *)
(***************************************************************************)
MaxFlows == 2

\* Module-level state: every invocation works on the variables of the first.
SharedVariables(all, p) == all[1]

\* The variables an invocation works on are its own: `const steps`, `let
\* context` are declared inside the function.
LocalVariables(all, p) == all[p]

Unsent == [kind |-> "unsent", httpStatus |-> 0, body |-> EmptyObject]

\* The scenario the concurrent invocations run: getSessionToken, initPayment.
ConcurrentScenario == SubSeq(StepLibrary, 1, 2)

\* What the gateway answers to a step of the p-th invocation.
ScenarioReplies(p) ==
    { [kind |-> "object", httpStatus |-> 200,
       body |-> FromPairs(<< <<"status", "SUCCESS">>,
                             <<"sessionToken", "st-" \o ToString(p)>>,
                             <<"transactionId", "tx-" \o ToString(p)>> >>)],
      [kind |-> "object", httpStatus |-> 200,
       body |-> FromPairs(<< <<"status", "ERROR">>, <<"reason", "Invalid checksum">> >>)],
      [kind |-> "transportError", httpStatus |-> 0, body |-> EmptyObject] }

PaymentEndpoints == << "getSessionToken", "initPayment", "payment.do" >>

\* executeScenario(scenario, env, initialContext) run alone against the
\* gateway outcomes of its steps.
ExecuteScenario(sc, initialContext, outcomes) ==
    LET RECURSIVE Loop(_, _, _)
        Loop(i, stepList, ctx) ==
            IF i > Len(sc) \/ i > Len(outcomes)
            THEN [returned |-> TRUE, status |-> "completed", steps |-> stepList,
                  context |-> MaskContextSensitiveData(ctx)]
            ELSE LET done == ExecuteStep(sc[i], ctx, outcomes[i])
                 IN  IF done.threw THEN NoResult
                     ELSE IF IsFailure(done.result)
                     THEN [returned |-> TRUE, status |-> "failed",
                           steps |-> Append(stepList, done.result),
                           context |-> MaskContextSensitiveData(done.updatedContext)]
                     ELSE IF IsChallenge(done.result)
                     THEN [returned |-> TRUE, status |-> "challenge_required",
                           steps |-> Append(stepList, done.result),
                           context |-> MaskContextSensitiveData(done.updatedContext)]
                     ELSE Loop(i + 1, Append(stepList, done.result), done.updatedContext)
    IN  Loop(1, <<>>,
             [k \in {"env"} \cup DOMAIN initialContext |->
                 IF k \in DOMAIN initialContext THEN initialContext[k] ELSE Obj("EnvConfig")])

\* handle3DSPayment on the replies received so far; a fetch not yet answered
\* counts as not sent.
PaymentRun(me) ==
    LET Reply(i) == IF i <= Len(me.received) THEN me.received[i] ELSE Unsent
    IN  Handle3DSPayment(me.input, me.ms, me.rnd, Reply(1), Reply(2), Reply(3))

concurrentFrame == <<scenarioVars, invocation, appVars, lastCall, inFlight>>

\* executeScenario is called: steps = [], context = { env, ...initialContext }.
StartScenarioFlow ==
    /\ Len(flows) < MaxFlows
    /\ \E initialContext \in InitialContexts :
          flows' = Append(flows,
              [kind |-> "scenario", pc |-> "running", scenario |-> ConcurrentScenario,
               initialContext |-> initialContext, input |-> EmptyObject, ms |-> 0,
               rnd |-> "", stepIndex |-> 1, steps |-> <<>>,
               context |-> [k \in {"env"} \cup DOMAIN initialContext |->
                               IF k \in DOMAIN initialContext THEN initialContext[k]
                               ELSE Obj("EnvConfig")],
               finalStatus |-> "completed", halted |-> FALSE, received |-> <<>>,
               sent |-> <<>>, result |-> NoResult])
    /\ UNCHANGED storeVars
    /\ UNCHANGED concurrentFrame

\* handle3DSPayment is called and reads its request.
StartPaymentFlow ==
    /\ Len(flows) < MaxFlows
    /\ \E rnd \in RandomSuffixes :
          flows' = Append(flows,
              [kind |-> "payment", pc |-> "running", scenario |-> <<>>,
               initialContext |-> EmptyObject, input |-> AppPayload,
               ms |-> Len(flows) + 1, rnd |-> rnd, stepIndex |-> 1, steps |-> <<>>,
               context |-> EmptyObject, finalStatus |-> "", halted |-> FALSE,
               received |-> <<>>, sent |-> <<>>, result |-> NoResult])
    /\ UNCHANGED storeVars
    /\ UNCHANGED concurrentFrame

\* One iteration of executeScenario's loop in the p-th invocation: its
\* fetch is answered and the loop goes on to the next await.
ScenarioFlowStep ==
    \E p \in 1..Len(flows) :
        LET me == LocalVariables(flows, p)
        IN  /\ flows[p].kind = "scenario"
            /\ flows[p].pc = "running"
            /\ ~me.halted
            /\ me.stepIndex <= Len(me.scenario)
            /\ \E outcome \in ScenarioReplies(p) :
                  LET done == ExecuteStep(me.scenario[me.stepIndex], me.context, outcome)
                  IN  flows' =
                        [flows EXCEPT ![p] =
                           IF done.threw THEN [me EXCEPT !.pc = "thrown"]
                           ELSE [me EXCEPT
                                   !.received = Append(me.received, outcome),
                                   !.steps = Append(me.steps, done.result),
                                   !.context = done.updatedContext,
                                   !.stepIndex = me.stepIndex + 1,
                                   !.finalStatus =
                                       IF IsFailure(done.result) THEN "failed"
                                       ELSE IF IsChallenge(done.result)
                                       THEN "challenge_required" ELSE me.finalStatus,
                                   !.halted = (IsFailure(done.result)
                                               \/ IsChallenge(done.result))]]
            /\ UNCHANGED storeVars
            /\ UNCHANGED concurrentFrame

\* The return statement of executeScenario in the p-th invocation.
ScenarioFlowReturn ==
    \E p \in 1..Len(flows) :
        LET me == LocalVariables(flows, p)
        IN  /\ flows[p].kind = "scenario"
            /\ flows[p].pc = "running"
            /\ me.halted \/ me.stepIndex > Len(me.scenario)
            /\ flows' = [flows EXCEPT ![p] =
                           [me EXCEPT !.pc = "done",
                                      !.result = [returned |-> TRUE,
                                                  status |-> me.finalStatus,
                                                  steps |-> me.steps,
                                                  context |->
                                                      MaskContextSensitiveData(me.context)]]]
            /\ UNCHANGED storeVars
            /\ UNCHANGED concurrentFrame

\* The next fetch of handle3DSPayment in the p-th invocation is sent and
\* answered.
PaymentFlowFetch ==
    \E p \in 1..Len(flows) :
        LET me == LocalVariables(flows, p)
            run == PaymentRun(me)
        IN  /\ flows[p].kind = "payment"
            /\ flows[p].pc = "running"
            /\ Len(run.outbound) > Len(me.received)
            /\ \E reply \in FlowReplies(PaymentEndpoints[Len(me.received) + 1], p) :
                  flows' = [flows EXCEPT ![p] =
                              [me EXCEPT !.received = Append(me.received, reply),
                                         !.sent = Append(me.sent,
                                                         run.outbound[Len(me.received) + 1])]]
            /\ UNCHANGED storeVars
            /\ UNCHANGED concurrentFrame

\* handle3DSPayment returns in the p-th invocation, after mirroring the
\* payment response into the store.
PaymentFlowReturn ==
    \E p \in 1..Len(flows) :
        LET me == LocalVariables(flows, p)
            run == PaymentRun(me)
        IN  /\ flows[p].kind = "payment"
            /\ flows[p].pc = "running"
            /\ Len(run.outbound) <= Len(me.received)
            /\ flows' = [flows EXCEPT ![p] = [me EXCEPT !.pc = "done", !.result = run.reply]]
            /\ IF run.mirror = <<>>
               THEN UNCHANGED storeVars
               ELSE \E rnd \in RandomSuffixes :
                       MirrorInternalDmn(run.mirror[1][1], run.mirror[1][2], run.mirror[1][3],
                                         clock + 1, rnd)
            /\ UNCHANGED concurrentFrame

NextConcurrent ==
    \/ StartScenarioFlow
    \/ StartPaymentFlow
    \/ ScenarioFlowStep
    \/ ScenarioFlowReturn
    \/ PaymentFlowFetch
    \/ PaymentFlowReturn

SpecConcurrent == InitOrchestrators /\ [][NextConcurrent]_vars


(***************************************************************************)
(* The request of executeStep: the template resolved against the context,  *)
(* timeStamp and clientRequestId set, and the checksum injected.  A        *)
(* template is the list of its entries, nested keys written as dot paths;  *)
(* a context is keyed like a request ("env.merchantKey", "sessionToken").  *)
(***************************************************************************)

\* value.replace(/\{\{(\w+)\.(\w+)\}\}/g, ...) on a string that is one
\* placeholder, or no placeholder at all.
IsPlaceholder(text) ==
    /\ Len(text) >= 7
    /\ SubSeq(text, 1, 2) = "{{"
    /\ SubSeq(text, Len(text) - 1, Len(text)) = "}}"
    /\ \E i \in 4..(Len(text) - 4) : SubSeq(text, i, i) = "."

PlaceholderNamespace(text) ==
    LET dot == CHOOSE i \in 4..(Len(text) - 4) : SubSeq(text, i, i) = "."
    IN  SubSeq(text, 3, dot - 1)

PlaceholderField(text) ==
    LET dot == CHOOSE i \in 4..(Len(text) - 4) : SubSeq(text, i, i) = "."
    IN  SubSeq(text, dot + 1, Len(text) - 2)

\* String(v || '')
StringOrEmpty(v) == IF Truthy(v) THEN JsString(v) ELSE ""

\* The replacement callback: env.* and ctx.* from the context, meta.* from a
\* new call of the generators (fresh), anything else ''.
ResolvePlaceholder(text, ctx, fresh) ==
    LET namespace == PlaceholderNamespace(text)
        field == PlaceholderField(text)
    IN  IF namespace = "env" THEN StringOrEmpty(Get(ctx, "env." \o field))
        ELSE IF namespace = "ctx" THEN StringOrEmpty(Get(ctx, field))
        ELSE IF namespace = "meta" /\ field = "timestamp" THEN fresh.timestamp
        ELSE IF namespace = "meta" /\ field = "clientRequestId" THEN fresh.clientRequestId
        ELSE ""

\* resolveTemplate(template, context): string leaves substituted, other
\* leaves copied.
RECURSIVE ResolveTemplate(_, _, _)
ResolveTemplate(template, ctx, fresh) ==
    IF template = <<>> THEN EmptyObject
    ELSE LET key == template[Len(template)][1]
             value == template[Len(template)][2]
             resolved == IF value.ty = "string" /\ IsPlaceholder(value.s)
                         THEN Str(ResolvePlaceholder(value.s, ctx, fresh))
                         ELSE value
         IN  Put(ResolveTemplate(SubSeq(template, 1, Len(template) - 1), ctx, fresh),
                 key, resolved)

\* `if ('timeStamp' in requestBody || step.requestTemplate.timeStamp)` and the
\* same for clientRequestId.
WithMetaFields(resolved, meta) ==
    LET stamped == IF "timeStamp" \in DOMAIN resolved
                   THEN Put(resolved, "timeStamp", Str(meta.timestamp)) ELSE resolved
    IN  IF "clientRequestId" \in DOMAIN stamped
        THEN Put(stamped, "clientRequestId", Str(meta.clientRequestId)) ELSE stamped

\* step.checksumFields.map(field => field === 'merchantKey'
\*     ? context.env.merchantKey : String(requestBody[field] || ''))
StepChecksumValues(checksumFields, requestBody, ctx) ==
    [i \in 1..Len(checksumFields) |->
        IF checksumFields[i] = "merchantKey" THEN Get(ctx, "env.merchantKey")
        ELSE Str(StringOrEmpty(Get(requestBody, checksumFields[i])))]

\* context.env.checksumAlgorithm || 'SHA256'
StepAlgorithm(ctx) ==
    IF Truthy(Get(ctx, "env.checksumAlgorithm")) THEN Get(ctx, "env.checksumAlgorithm").s
    ELSE "SHA256"

\* Mutant: the checksum is computed over the resolved template, before
\* timeStamp and clientRequestId are set.
RequestBodyChecksumFirst(step, ctx, meta, fresh) ==
    LET resolved == ResolveTemplate(step.requestTemplate, ctx, fresh)
        requestBody == WithMetaFields(resolved, meta)
    IN  IF Len(step.checksumFields) > 0
        THEN Put(requestBody, "checksum",
                 Str(CalculateChecksumWith(
                        StepChecksumValues(step.checksumFields, resolved, ctx),
                        StepAlgorithm(ctx))))
        ELSE requestBody

\* The body executeStep sends: meta are the timestamp and clientRequestId it
\* generated first, fresh what the generators return inside resolveTemplate.
RequestBody(step, ctx, meta, fresh) ==
    LET requestBody == WithMetaFields(ResolveTemplate(step.requestTemplate, ctx, fresh), meta)
    IN  IF Len(step.checksumFields) > 0
        THEN Put(requestBody, "checksum",
                 Str(CalculateChecksumWith(
                        StepChecksumValues(step.checksumFields, requestBody, ctx),
                        StepAlgorithm(ctx))))
        ELSE requestBody

\* Steps as a scenario file declares them: a session request, a payment with a
\* context amount or a literal one and a second generated id, a status request
\* without checksum, and a step whose checksum fields name a field its
\* template lacks.
StepDeclarations ==
    LET merchant == << <<"merchantId", Str("{{env.merchantId}}")>>,
                       <<"merchantSiteId", Str("{{env.merchantSiteId}}")>> >>
        stamps == << <<"clientRequestId", Str("{{meta.clientRequestId}}")>>,
                     <<"timeStamp", Str("{{meta.timestamp}}")>> >>
    IN  { [id |-> "getSessionToken", requestTemplate |-> merchant \o stamps,
           checksumFields |-> <<"merchantId", "merchantSiteId", "clientRequestId",
                                "timeStamp", "merchantKey">>],
          [id |-> "payment",
           requestTemplate |-> << <<"sessionToken", Str("{{ctx.sessionToken}}")>> >> \o merchant
                               \o << <<"clientUniqueId", Str("{{meta.clientRequestId}}")>>,
                                     <<"amount", Str("{{ctx.amount}}")>>,
                                     <<"currency", Str("USD")>>,
                                     <<"paymentOption.card.cardNumber", Str("4000020951595032")>> >>
                               \o stamps,
           checksumFields |-> <<"merchantId", "merchantSiteId", "clientRequestId", "amount",
                                "currency", "timeStamp", "merchantKey">>],
          [id |-> "settleTransaction",
           requestTemplate |-> merchant \o << <<"amount", Num("150")>>,
                                              <<"currency", Str("USD")>>,
                                              <<"relatedTransactionId", Str("{{ctx.transactionId}}")>>,
                                              <<"comment", Str("{{other.field}}")>> >>
                               \o stamps,
           checksumFields |-> <<"merchantId", "merchantSiteId", "clientRequestId",
                                "clientUniqueId", "amount", "currency", "relatedTransactionId",
                                "comment", "timeStamp", "merchantKey">>],
          [id |-> "getPaymentStatus",
           requestTemplate |-> << <<"sessionToken", Str("{{ctx.sessionToken}}")>> >>,
           checksumFields |-> << >>] }

StepContexts ==
    { [k \in {"env.merchantId", "env.merchantSiteId", "env.merchantKey", "env.baseUrl"}
          \cup (IF alg = "" THEN {} ELSE {"env.checksumAlgorithm"})
          \cup (IF token = "" THEN {} ELSE {"sessionToken"})
          \cup (IF amount = "" THEN {} ELSE {"amount"})
       |-> CASE k = "env.merchantId" -> Str("427583496191624621")
             [] k = "env.merchantSiteId" -> Str("142033")
             [] k = "env.merchantKey" -> Str("secret")
             [] k = "env.baseUrl" -> Str("https://ppp-test.nuvei.com")
             [] k = "env.checksumAlgorithm" -> Str(alg)
             [] k = "sessionToken" -> Str(token)
             [] k = "amount" -> Str(amount)] :
        alg \in {"", "SHA256", "SHA1"}, token \in {"", "st-1"}, amount \in {"", "150"} }

\* What generateTimestamp() and generateClientRequestId() return on a call.
GeneratedValues ==
    [timestamp : {"20261101120000", "20261101120001"},
     clientRequestId : {"req-1", "req-2"}]

\* executeStep up to its fetch, called on its own.
BuildRequestCall ==
    /\ lastCall = NoCall
    /\ \E step \in StepDeclarations, ctx \in StepContexts :
       \E meta \in GeneratedValues, fresh \in GeneratedValues :
          lastCall' = [fn |-> "executeStep.request", step |-> step, context |-> ctx,
                       meta |-> meta, fresh |-> fresh,
                       requestBody |-> RequestBody(step, ctx, meta, fresh)]
    /\ UNCHANGED libraryFrame


NextLibrary ==
    \/ CalculateChecksumCall
    \/ CalculateChecksumForEndpointCall
    \/ VerifyChecksumCall
    \/ GetChecksumFieldOrderCall
    \/ MaskSensitiveDataCall
    \/ BuildRequestCall

SpecLibrary == InitOrchestrators /\ [][NextLibrary]_vars


(***************************************************************************)
(* SpecNotify: POST /api/3ds-notify.  The route parses the body, derives   *)
(* threeDSResult from the cres, stores the request through handleWebhook   *)
(* and answers the popup page that posts '3ds-complete' to its opener.     *)
(***************************************************************************)

\* payload of the route: form fields, or JSON.parse(rawBody), or { rawBody }.
NotifyPayload(req) ==
    IF IsFormContentType(req.contentType) THEN Parsed(FormParse(req.text))
    ELSE LET v == JsonParse(req.text)
         IN  IF v.kind = "throw" THEN Parsed(Put(EmptyObject, "rawBody", Str(req.text)))
             ELSE [threw |-> FALSE, kind |-> v.kind, fields |-> v.fields]

\* threeDSResult: { transStatus: 'Y', messageType: 'CRes' } unless the payload
\* has a non-empty string cres; then the members of the decoded CRes, or
\* transStatus 'N' with messageType 'Error' when a decoding step throws.
ThreeDSResult(fields) ==
    LET cres == Get(fields, "cres")
        failed(message) ==
            FromPairs(<< <<"transStatus", "N">>, <<"errorMessage", message>>,
                         <<"messageType", "Error">> >>)
    IN  IF ~(Truthy(cres) /\ cres.ty = "string")
        THEN FromPairs(<< <<"transStatus", "Y">>, <<"messageType", "CRes">> >>)
        ELSE LET decoded == Atob(Base64UrlToStd(cres.s))
             IN  IF ~decoded.ok THEN failed("Failed to decode cRes")
                 ELSE LET cresJson == CresParse(decoded.text)
                      IN  IF cresJson.kind # "object" THEN failed(decoded.text)
                          ELSE JsonStringify(
                                 [k \in {"transStatus", "threeDSServerTransID", "acsTransID",
                                         "messageType", "authenticationValue", "eci",
                                         "dsTransID"} |->
                                    IF k = "messageType"
                                    THEN (IF Truthy(Get(cresJson.fields, k))
                                          THEN Get(cresJson.fields, k) ELSE Str("CRes"))
                                    ELSE Get(cresJson.fields, k)])

\* const authSuccess = threeDSResult.transStatus === 'Y' || threeDSResult.transStatus === 'A'
AuthSuccess(threeDSResult) ==
    Get(threeDSResult, "transStatus") \in {Str("Y"), Str("A")}

NotifyResponse(status) ==
    [handler |-> "3ds-notify", status |-> status, body |-> "3DS Complete",
     webhooks |-> <<>>, count |-> 0]

\* The route as a whole.  A JSON body null makes `payload.cres` throw before
\* anything is stored; otherwise handleWebhook ingests the same content type
\* and body as a POST, and the page carries success and threeDSResult.
Handle3DSNotify ==
    /\ clock < MaxIngest
    /\ \E req \in {r \in Requests : r.method = "POST"}, rnd \in RandomSuffixes :
          LET payload == NotifyPayload(req)
              threeDSResult == ThreeDSResult(payload.fields)
              out == WebhookOutcome(req, clock + 1, rnd)
          IN  /\ clock' = clock + 1
              /\ request' = req
              /\ IF payload.kind = "null"
                 THEN /\ response' = NotifyResponse(500)
                      /\ lastCall' = [fn |-> "3ds-notify", threw |-> TRUE, stored |-> FALSE,
                                      success |-> FALSE, threeDSResult |-> EmptyObject]
                      /\ UNCHANGED <<webhookStore, inserted>>
                 ELSE /\ response' = NotifyResponse(200)
                      /\ lastCall' = [fn |-> "3ds-notify", threw |-> FALSE, stored |-> out.stored,
                                      success |-> AuthSuccess(threeDSResult),
                                      threeDSResult |-> threeDSResult]
                      /\ IF out.stored
                         THEN /\ webhookStore' = UnshiftAndTrim(webhookStore, out.record,
                                                                WebhookCapacity)
                              /\ inserted' = Append(inserted, out.record)
                         ELSE UNCHANGED <<webhookStore, inserted>>
    /\ UNCHANGED scenarioVars
    /\ UNCHANGED <<invocation, appVars, inFlight, flows>>

NextNotify ==
    \/ Handle3DSNotify
    \/ HandleGetWebhooks
    \/ HandleClearWebhooks

SpecNotify == InitWebhook /\ [][NextNotify]_vars


(***************************************************************************)
(* Properties of the orchestrators (SpecOrchestrators)                     *)
(***************************************************************************)
\* The gateway answered the i-th call of the last invocation with status SUCCESS.
Succeeded(i) ==
    /\ i <= Len(invocation.gateway)
    /\ invocation.gateway[i].kind = "object"
    /\ Get(invocation.gateway[i].body, "status") = Str("SUCCESS")

StepIds(stepList) == [i \in 1..Len(stepList) |-> stepList[i].stepId]

FrictionlessRun ==
    /\ invocation.handler = "handle3DSPayment"
    /\ Succeeded(1) /\ Succeeded(2) /\ Succeeded(3)
    /\ Get(invocation.gateway[3].body, "transactionStatus") = Str("APPROVED")

\* C11: when the gateway answers getSessionToken and initPayment with SUCCESS and
\* payment.do with SUCCESS / APPROVED, handle3DSPayment returns status 'completed'
\* with exactly the three steps getSessionToken, initPayment, payment, none of
\* them in status error or redirect.
C11_FrictionlessCompletes ==
    FrictionlessRun =>
        /\ Get(invocation.reply.fields, "status") = Str("completed")
        /\ StepIds(invocation.reply.steps) = <<"getSessionToken", "initPayment", "payment">>
        /\ \A i \in 1..Len(invocation.reply.steps) :
              invocation.reply.steps[i].status \notin {"error", "redirect"}

C11_Witness ==
    /\ FrictionlessRun
    /\ Get(invocation.reply.fields, "status") = Str("completed")
    /\ Len(invocation.reply.steps) = 3

RedirectOutcome ==
    /\ invocation.handler = "handle3DSPayment"
    /\ Len(invocation.gateway) = 3
    /\ invocation.gateway[3].kind = "object"
    /\ Get(invocation.gateway[3].body, "transactionStatus") = Str("REDIRECT")
    /\ Truthy(Get(invocation.gateway[3].body, AcsUrlPath))
    /\ Truthy(Get(invocation.gateway[3].body, CReqPath))

\* C12: when payment.do answers with a redirect outcome (transactionStatus REDIRECT
\* with an acsUrl and a cReq, each a non-empty value), handle3DSPayment returns
\* status 'challenge_required' with that ACS URL and challenge token, and
\* payment.do is the last call it issues: it neither polls nor waits.
C12_ChallengeHaltsWithoutPolling ==
    RedirectOutcome =>
        /\ Get(invocation.reply.fields, "status") = Str("challenge_required")
        /\ Get(invocation.reply.fields, "acsUrl") = Get(invocation.gateway[3].body, AcsUrlPath)
        /\ Get(invocation.reply.fields, "cReq") = Get(invocation.gateway[3].body, CReqPath)
        /\ Len(invocation.outbound) = 3
        /\ invocation.outbound[3].endpoint = "payment.do"
        /\ \A i \in 1..2 : invocation.outbound[i].endpoint # "payment.do"

C12_Witness ==
    /\ RedirectOutcome
    /\ Get(invocation.reply.fields, "status") = Str("challenge_required")
    /\ Get(invocation.reply.fields, "acsUrl") = Str("https://acs.example/challenge")


(***************************************************************************)
(* Properties of the frontend's 3DS flow (SpecApp)                         *)
(***************************************************************************)
\* C13: the App posts to /api/payment/liability-shift only after a '3ds-complete'
\* message reporting success has arrived and a flow has ended challenge_required,
\* and the body carries the session token that flow's getSessionToken returned and
\* the transaction id that flow's initPayment returned; handleLiabilityShift
\* issues no gateway call when sessionToken or relatedTransactionId is missing.
C13_LiabilityShiftAfterChallenge ==
    /\ \A i \in 1..Len(posts) :
          /\ \E m \in 1..Len(messages) :
                messages[m].type = "3ds-complete" /\ messages[m].success
          /\ \E flow \in challenged :
                /\ Get(posts[i], "sessionToken") = flow.sessionToken
                /\ Get(posts[i], "relatedTransactionId") = flow.initTransactionId
    /\ (/\ invocation.handler = "handleLiabilityShift"
        /\ \/ ~Truthy(Get(invocation.input, "sessionToken"))
           \/ ~Truthy(Get(invocation.input, "relatedTransactionId")))
       => invocation.outbound = << >>

C13_Witness ==
    /\ Len(posts) = 1
    /\ invocation.handler = "handleLiabilityShift"
    /\ invocation.input = posts[1]
    /\ Len(invocation.outbound) = 1
    /\ invocation.outbound[1].endpoint = "payment.do"
    /\ Get(invocation.outbound[1].body, "relatedTransactionId") = Str("tx-init-1")


\* C14: an APM request that breaks its method's rule (a required field missing, or
\* the country or currency outside the allow-list) is rejected with no outbound
\* gateway call at all, not even getSessionToken, and the error response names the
\* missing fields.  The worker runs the rule table only after getSessionToken has
\* answered, so this statement fails.
ApmRuleBroken ==
    /\ invocation.handler = "handleApmPayment"
    /\ HasCredentials(invocation.input)
    /\ Truthy(Get(invocation.input, "paymentMethod"))
    /\ ViolatesApmRule(invocation.input)
C14_ApmRejectedBeforeAnyCall ==
    ApmRuleBroken =>
        /\ invocation.outbound = << >>
        /\ invocation.reply.http = 400
        /\ "error" \in DOMAIN invocation.reply.fields


\* The fields a handler's request must hold: the card for handle3DSPayment, the
\* method for handleApmPayment, the row's `required` fields for the others.
RequiredFields(handler) ==
    CASE handler = "handle3DSPayment" -> {"card.number", "card.holderName", "amount"}
      [] handler = "handleApmPayment" -> {"paymentMethod"}
      [] handler \in DOMAIN Orchestrators -> Orchestrators[handler].required
      [] OTHER -> {}

IncompleteRequest ==
    /\ invocation.handler # ""
    /\ \/ ~HasCredentials(invocation.input)
       \/ \E k \in RequiredFields(invocation.handler) : ~Truthy(Get(invocation.input, k))

\* C15: every orchestrator checks merchantId, merchantSiteId, merchantKey and its
\* required fields before its first outbound call: when one is missing it answers
\* with an error response and has issued no gateway call.  The liability-shift,
\* settle, void, refund, status and details handlers test no credential, and
\* handle3DSPayment tests no card field, so this statement fails.
C15_ChecksBeforeFirstCall ==
    IncompleteRequest =>
        /\ invocation.outbound = << >>
        /\ invocation.reply.http = 400

\* The session token a getSessionToken call of this invocation returned before call i.
ReturnedTokens(i) ==
    { Get(invocation.gateway[j].body, "sessionToken") :
        j \in { j \in 1..(i - 1) : /\ invocation.outbound[j].endpoint = "getSessionToken"
                                   /\ invocation.gateway[j].kind = "object" } }

\* C16: every call to an endpoint whose registry entry has requiresSessionToken
\* carries a session token, the caller's or one a getSessionToken call of the same
\* invocation returned earlier, and a handler given a token by the caller that it
\* forwards makes no getSessionToken call.  handlePayout and handleAddUPO call such
\* endpoints with no token at all, so this statement fails.
C16_SessionTokenCarried ==
    \A i \in 1..Len(invocation.outbound) :
        LET call == invocation.outbound[i]
        IN  ENDPOINT_SPECS[call.endpoint].requiresSessionToken =>
               /\ Truthy(Get(call.body, "sessionToken"))
               /\ \/ Get(call.body, "sessionToken") = Get(invocation.input, "sessionToken")
                  \/ Get(call.body, "sessionToken") \in ReturnedTokens(i)
               /\ (/\ invocation.handler = "handleGetCardDetails"
                   /\ Truthy(Get(invocation.input, "sessionToken")))
                  => \A j \in 1..Len(invocation.outbound) :
                        invocation.outbound[j].endpoint # "getSessionToken"

\* C17: every call to an endpoint whose registry entry has requiresChecksum carries
\* the checksum calculateChecksumForEndpoint computes from the fields of the request
\* body and the merchant key.  handlePayout leaves userTokenId out of its list,
\* handleGetUserUPOs swaps two fields, initPayment and getCardDetails carry no
\* checksum, so this statement fails.
C17_ChecksumMatchesRegistry ==
    \A i \in 1..Len(invocation.outbound) :
        LET call == invocation.outbound[i]
        IN  ENDPOINT_SPECS[call.endpoint].requiresChecksum =>
               Get(call.body, "checksum") =
                  Str(CalculateChecksumForEndpoint(call.endpoint, call.body,
                                                   Get(invocation.input, "env.merchantKey")))

\* C18: no step returned to the caller carries the cleartext checksum, the full card
\* number or the CVV in its request body.  handle3DSPayment logs sessionBody and
\* paymentBody with their checksum and masks only the card number of the card
\* object, so this statement fails.
C18_ReturnedStepsMasked ==
    \A i \in 1..Len(invocation.reply.steps) :
        LET logged == invocation.reply.steps[i].request
        IN  /\ "checksum" \in DOMAIN logged => logged["checksum"] = Str("***masked***")
            /\ "paymentOption.card.cardNumber" \in DOMAIN logged =>
                  logged["paymentOption.card.cardNumber"] # Get(invocation.input, "card.number")
            /\ "paymentOption.card.CVV" \in DOMAIN logged =>
                  logged["paymentOption.card.CVV"] # Get(invocation.input, "card.cvv")

\* The handler's last call reached the gateway and was answered with a JSON object.
FinalCallCompleted ==
    /\ invocation.handler # ""
    /\ invocation.outbound # << >>
    /\ invocation.outbound[Len(invocation.outbound)].endpoint # "getSessionToken"
    /\ invocation.gateway[Len(invocation.gateway)].kind = "object"
    /\ invocation.handler = "handle3DSPayment" => Len(invocation.outbound) = 3

\* C20: an orchestrator whose final gateway call completed has put one record
\* holding that response, with its _dmnType label and _operation, at the head of the
\* webhook store before it returns.  handleGetUserUPOs, handleAddUPO,
\* handleCreateUser and handleGetCardDetails never call storeInternalDmn, so this
\* statement fails.
C20_FinalResponseMirrored ==
    FinalCallCompleted =>
        /\ webhookStore # << >>
        /\ Truthy(Get(webhookStore[1].payload.fields, "_dmnType"))
        /\ Truthy(Get(webhookStore[1].payload.fields, "_operation"))
        /\ \A k \in DOMAIN invocation.gateway[Len(invocation.gateway)].body :
              Get(webhookStore[1].payload.fields, k) = invocation.gateway[Len(invocation.gateway)].body[k]


\* The context snapshot holds no env entry and no credential value.
WithoutCredentials(snapshot, credentials) ==
    /\ \A k \in DOMAIN snapshot :
          /\ k \notin {"env", "merchantKey", "env.merchantId", "env.merchantSiteId",
                       "env.merchantKey", "env.baseUrl"}
          /\ snapshot[k] \notin credentials

\* C19: the context snapshot returned at the end of a flow, by executeScenario
\* (ScenarioRunResult.context) and by handle3DSPayment (the context of its
\* response), has no env entry and no merchantKey value, on every exit path
\* (completed, failed, challenge_required).
C19_ContextWithoutCredentials ==
    /\ runResult.returned => WithoutCredentials(runResult.context, {Obj("EnvConfig")})
    /\ invocation.handler = "handle3DSPayment" =>
          WithoutCredentials(invocation.reply.context,
                             {Obj("env"), Get(invocation.input, "env.merchantKey")} \ {Undefined})

C19_Witness ==
    /\ runResult.returned
    /\ runResult.status = "challenge_required"
    /\ runResult.context # EmptyObject
    /\ "env" \in DOMAIN context

PaymentSnapshotReturned ==
    /\ invocation.handler = "handle3DSPayment"
    /\ Get(invocation.reply.fields, "status") = Str("challenge_required")
    /\ Truthy(Get(invocation.reply.context, "sessionToken"))
    /\ Truthy(Get(invocation.input, "env.merchantKey"))

(***************************************************************************)
(* Properties of concurrent flow invocations (SpecConcurrent)              *)
(***************************************************************************)
\* What the p-th invocation returns when it runs alone against the gateway
\* responses it received.
RunAlone(p) ==
    IF flows[p].kind = "scenario"
    THEN ExecuteScenario(flows[p].scenario, flows[p].initialContext, flows[p].received)
    ELSE PaymentRun(flows[p]).reply

\* The session token the gateway gave the p-th invocation.
OwnSessionToken(p) == Get(flows[p].received[1].body, "sessionToken")

\* C21: a flow invocation that runs interleaved with another returns what it
\* returns alone against the same gateway responses, and the session token
\* it sends on is the one its own getSessionToken call returned.
C21_InvocationsAreIsolated ==
    \A p \in 1..Len(flows) :
        /\ flows[p].pc = "done" => flows[p].result = RunAlone(p)
        /\ flows[p].kind = "payment" =>
              /\ Len(flows[p].sent) <= Len(PaymentRun(flows[p]).outbound)
              /\ \A i \in 1..Len(flows[p].sent) :
                    /\ flows[p].sent[i] = PaymentRun(flows[p]).outbound[i]
                    /\ i > 1 => Get(flows[p].sent[i].body, "sessionToken") = OwnSessionToken(p)

\* The second payment started after the first, and returned while the first
\* was suspended at its initPayment fetch; each sent on its own token.
C21_Witness ==
    /\ Len(flows) = 2
    /\ flows[1].kind = "payment"
    /\ flows[1].pc = "running"
    /\ Len(flows[1].sent) = 2
    /\ OwnSessionToken(1) = Str("st-1")
    /\ Get(flows[1].sent[2].body, "sessionToken") = Str("st-1")
    /\ flows[2].kind = "payment"
    /\ flows[2].pc = "done"
    /\ Len(flows[2].sent) = 3
    /\ Get(flows[2].sent[3].body, "sessionToken") = Str("st-2")
    /\ flows[2].result = RunAlone(2)

(***************************************************************************)
(* Properties of the store under interleaved handlers (SpecInterleaved)    *)
(***************************************************************************)
\* C22: whatever the order in which the handlers in flight complete, at
\* every point between two handler steps the store has at most 100 records,
\* holds no record twice, and holds the record of every completed ingest
\* that was not cleared and is among the last 100 inserted.
C22_InsertIsAtomic ==
    /\ Len(webhookStore) <= WebhookCapacity
    /\ \A i, j \in 1..Len(webhookStore) : webhookStore[i] = webhookStore[j] => i = j
    /\ \A k \in 1..Len(inserted) :
          k > Len(inserted) - WebhookCapacity =>
              \E i \in 1..Len(webhookStore) : webhookStore[i] = inserted[k]

\* The second call completed before the first, and the store has since been
\* filled and has evicted a record.
C22_Witness ==
    /\ Len(webhookStore) = WebhookCapacity
    /\ Len(inserted) > WebhookCapacity
    /\ "transactionId" \in DOMAIN inserted[1].payload.fields
    /\ inserted[1].timestamp = IsoString(1)

(***************************************************************************)
(* Properties of the checksum library (SpecLibrary)                        *)
(***************************************************************************)
ChecksumCalled == lastCall.fn = "calculateChecksum"

ForEndpointCalled == lastCall.fn = "calculateChecksumForEndpoint"

\* The list with its i-th and j-th entries exchanged.
Swap(values, i, j) ==
    [k \in 1..Len(values) |->
        IF k = i THEN values[j] ELSE IF k = j THEN values[i] ELSE values[k]]

\* The list without its i-th entry.
Remove(values, i) == SubSeq(values, 1, i - 1) \o SubSeq(values, i + 1, Len(values))

\* C23 as stated: swapping two entries that hold distinct values changes the
\* checksum of every values list.
C23_SwapOfDistinctChanges ==
    ChecksumCalled =>
        \A i, j \in 1..Len(lastCall.values) :
            lastCall.values[i] # lastCall.values[j] =>
                CalculateChecksumWith(Swap(lastCall.values, i, j), lastCall.algorithm)
                    # lastCall.result

\* C23: with the digest injective, swapping two entries that hold distinct
\* values of the same length changes the checksum, and swapping an empty
\* entry with its neighbour leaves it as it was (the values are joined
\* without a separator and empty ones are dropped).
C23_SwapOfEqualLengthChanges ==
    ChecksumCalled =>
        \A i, j \in 1..Len(lastCall.values) :
            LET a == lastCall.values[i]
                b == lastCall.values[j]
                swapped == CalculateChecksumWith(Swap(lastCall.values, i, j),
                                                 lastCall.algorithm)
            IN  /\ (a # b /\ Len(a.s) = Len(b.s)) => swapped # lastCall.result
                /\ (a = Str("") /\ j = i + 1) => swapped = lastCall.result

C23_Witness ==
    /\ ChecksumCalled
    /\ \E i, j \in 1..Len(lastCall.values) :
          /\ lastCall.values[i] = Str("a")
          /\ lastCall.values[j] = Str("b")
          /\ CalculateChecksumWith(Swap(lastCall.values, i, j), lastCall.algorithm)
                 # lastCall.result

\* The optional checksum fields of the endpoint of the last call.
OptionalFields ==
    LET spec == GetEndpointSpec(lastCall.endpointName)
    IN  IF RequiresChecksum(spec)
        THEN {spec.checksumFields[i].name :
                 i \in {k \in 1..Len(spec.checksumFields) : ~spec.checksumFields[k].required}}
        ELSE {}

\* The checksum of the last call's arguments with one request field left out.
ChecksumOmitting(field) ==
    CalculateChecksumForEndpointWith(lastCall.endpointName,
                                     Without(lastCall.requestData, {field}),
                                     lastCall.merchantSecretKey, lastCall.algorithm)

\* C24 as stated: an optional field with an empty-string value gives another
\* checksum than the same input without the field, in calculateChecksum and
\* in calculateChecksumForEndpoint.
C24_EmptyValueChanges ==
    /\ ChecksumCalled =>
          \A i \in 1..Len(lastCall.values) :
              lastCall.values[i] = Str("") =>
                  CalculateChecksumWith(Remove(lastCall.values, i), lastCall.algorithm)
                      # lastCall.result
    /\ ForEndpointCalled =>
          \A field \in OptionalFields :
              Get(lastCall.requestData, field) = Str("") =>
                  ChecksumOmitting(field) # lastCall.result

\* C24: an optional field with an empty-string value gives the same checksum
\* as the input without the field, in calculateChecksum and in
\* calculateChecksumForEndpoint; with a non-empty value the checksum of
\* calculateChecksumForEndpoint differs from the one without the field.
C24_EmptyValueIsAbsent ==
    /\ ChecksumCalled =>
          \A i \in 1..Len(lastCall.values) :
              lastCall.values[i] = Str("") =>
                  CalculateChecksumWith(Remove(lastCall.values, i), lastCall.algorithm)
                      = lastCall.result
    /\ ForEndpointCalled =>
          \A field \in OptionalFields :
              LET value == Get(lastCall.requestData, field)
              IN  /\ value = Str("") => ChecksumOmitting(field) = lastCall.result
                  /\ (value.ty = "string" /\ value.s # "") =>
                         ChecksumOmitting(field) # lastCall.result

C24_Witness ==
    /\ ForEndpointCalled
    /\ lastCall.endpointName = "settleTransaction"
    /\ Get(lastCall.requestData, "comment") = Str("")
    /\ Get(lastCall.requestData, "authCode") = Str("A0")
    /\ ~lastCall.result.threw
    /\ ChecksumOmitting("comment") = lastCall.result

VerifyCalled == lastCall.fn = "verifyChecksum"

\* What calculateChecksumForEndpoint makes of the arguments of the last call.
Calculated ==
    CalculateChecksumForEndpointWith(lastCall.endpointName, lastCall.requestData,
                                     lastCall.merchantSecretKey, lastCall.algorithm)

\* The positions at which two strings of the same length differ.
Differences(a, b) == {i \in 1..Len(a) : SubSeq(a, i, i) # SubSeq(b, i, i)}

\* The provided checksum is the calculated one with one character altered.
OneCharAltered ==
    /\ lastCall.providedChecksum.ty = "string"
    /\ ~Calculated.threw
    /\ Len(lastCall.providedChecksum.s) = Len(HexDigest(Calculated.value))
    /\ Cardinality(Differences(lastCall.providedChecksum.s, HexDigest(Calculated.value))) = 1

\* The altered character is the upper-case form of the hexadecimal letter it
\* replaces.
OnlyCaseAltered ==
    /\ OneCharAltered
    /\ \A i \in Differences(lastCall.providedChecksum.s, HexDigest(Calculated.value)) :
          << SubSeq(HexDigest(Calculated.value), i, i),
             SubSeq(lastCall.providedChecksum.s, i, i) >>
          \in { <<"a", "A">>, <<"b", "B">>, <<"c", "C">>, <<"d", "D">>, <<"e", "E">>,
                <<"f", "F">> }

\* C25 as stated: verifyChecksum returns true for the checksum that
\* calculateChecksumForEndpoint computes, and false for that checksum with
\* any one character altered.
C25_AnyAlterationRejected ==
    VerifyCalled =>
        /\ (~Calculated.threw /\ lastCall.providedChecksum = Str(HexDigest(Calculated.value)))
              => lastCall.result = Returned(TRUE)
        /\ OneCharAltered => lastCall.result = Returned(FALSE)

\* C25: verifyChecksum returns true for the checksum that
\* calculateChecksumForEndpoint computes and for that checksum with a letter
\* in upper case (the comparison ignores case); it returns false for that
\* checksum with one character altered in any other way.
C25_AlterationBeyondCaseRejected ==
    VerifyCalled =>
        /\ (~Calculated.threw /\ lastCall.providedChecksum = Str(HexDigest(Calculated.value)))
              => lastCall.result = Returned(TRUE)
        /\ OnlyCaseAltered => lastCall.result = Returned(TRUE)
        /\ (OneCharAltered /\ ~OnlyCaseAltered) => lastCall.result = Returned(FALSE)

C25_Witness ==
    /\ VerifyCalled
    /\ OnlyCaseAltered
    /\ lastCall.algorithm = "SHA256"
    /\ lastCall.result = Returned(TRUE)


\* C26: verifyChecksum never throws; it returns false for a name
\* getEndpointSpec does not know, for verify3d and getPaymentStatus, and when
\* no checksum is provided.
C26_VerifyNeverThrows ==
    VerifyCalled =>
        /\ ~lastCall.result.threw
        /\ ( \/ lastCall.endpointName \in {"unknownEndpoint", "verify3d", "getPaymentStatus"}
             \/ lastCall.providedChecksum = Undefined )
              => lastCall.result = Returned(FALSE)

C26_Witness ==
    /\ VerifyCalled
    /\ lastCall.endpointName = "verify3d"
    /\ lastCall.providedChecksum.ty = "string"
    /\ lastCall.providedChecksum.s # ""
    /\ lastCall.result = Returned(FALSE)


\* The names of the model no registry entry answers to, by key or by path.
UnknownNames == {"unknownEndpoint", ""}

\* The names answered without a checksum: the two entries with
\* requiresChecksum = false, and a name the registry object inherits, which
\* the key lookup answers with a value that has no requiresChecksum.
NoChecksumNames == {"verify3d", "getPaymentStatus", "constructor"}

\* C27: calculateChecksumForEndpoint fails with the unknown-endpoint error
\* for a name getEndpointSpec finds nothing for, with the not-applicable
\* error when what it finds does not require a checksum, and in every other
\* case, whatever request fields are missing, returns a checksum.
C27_FailsOnlyWithoutSpecOrChecksum ==
    ForEndpointCalled =>
        /\ lastCall.endpointName \in UnknownNames =>
              /\ GetEndpointSpec(lastCall.endpointName) = NoSpec
              /\ lastCall.result.threw
              /\ StartsWith(lastCall.result.error, "Unknown endpoint: ")
        /\ lastCall.endpointName \in NoChecksumNames =>
              /\ GetEndpointSpec(lastCall.endpointName) # NoSpec
              /\ lastCall.result.threw
              /\ EndsWith(lastCall.result.error, " does not require checksum.")
        /\ lastCall.endpointName \notin UnknownNames \cup NoChecksumNames =>
              /\ ~lastCall.result.threw
              /\ \/ StartsWith(lastCall.result.value, "sha256(")
                 \/ StartsWith(lastCall.result.value, "sha1(")

C27_Witness ==
    /\ ForEndpointCalled
    /\ lastCall.endpointName = "payment"
    /\ lastCall.requestData = EmptyObject
    /\ lastCall.merchantSecretKey = Str("key-1")
    /\ lastCall.result = Returned("sha256(key-1)")

FieldOrderCalled == lastCall.fn = "getChecksumFieldOrder"

\* The registry key a name of the model stands for: the key itself, or the
\* key of the entry whose path the name is.
RegistryKey(name) ==
    CASE name = "payment" -> "payment.do"
      [] name \in {"/getSessionToken.do", "getSessionToken.do"} -> "getSessionToken"
      [] OTHER -> name

\* C28: in the registry an entry has checksum fields exactly when it requires
\* a checksum; getChecksumFieldOrder returns the names of those fields in
\* registry order for an entry that requires one, and the empty list for an
\* entry that does not and for an unknown name.
C28_FieldOrderFollowsRegistry ==
    /\ \A e \in DOMAIN ENDPOINT_SPECS :
          ENDPOINT_SPECS[e].requiresChecksum <=> ENDPOINT_SPECS[e].checksumFields # <<>>
    /\ FieldOrderCalled =>
          LET key == RegistryKey(lastCall.endpointName)
          IN  IF key \in DOMAIN ENDPOINT_SPECS /\ ENDPOINT_SPECS[key].requiresChecksum
              THEN /\ Len(lastCall.result) = Len(ENDPOINT_SPECS[key].checksumFields)
                   /\ \A i \in 1..Len(lastCall.result) :
                         lastCall.result[i] = ENDPOINT_SPECS[key].checksumFields[i].name
              ELSE lastCall.result = <<>>

C28_Witness ==
    /\ FieldOrderCalled
    /\ lastCall.endpointName = "payment"
    /\ lastCall.result = << "merchantId", "merchantSiteId", "clientRequestId", "amount",
                            "currency", "timeStamp", "merchantSecretKey" >>

MaskCalled == lastCall.fn = "maskSensitiveData"

\* The body of the last call holds a card number that is not empty.
CardNumberGiven ==
    /\ CardNumberPath \in DOMAIN lastCall.data
    /\ lastCall.data[CardNumberPath].s # ""

OriginalNumber == lastCall.data[CardNumberPath].s

MaskedNumber == lastCall.result[CardNumberPath].s

\* The masked number shows the last four characters of the original behind
\* mask characters, and nothing else of it.
OnlyLast4Visible ==
    /\ Len(MaskedNumber) >= 4
    /\ SubSeq(MaskedNumber, Len(MaskedNumber) - 3, Len(MaskedNumber))
           = SubSeq(OriginalNumber, Len(OriginalNumber) - 3, Len(OriginalNumber))
    /\ \A i \in 1..(Len(MaskedNumber) - 4) : SubSeq(MaskedNumber, i, i) = "*"

\* C29 as stated: a 16-digit card number is masked to a string that shows
\* only its last 4 digits and is as long as the original or longer; a number
\* of 13 or more digits is masked to at least 8 characters.
C29_MaskKeepsLength ==
    (MaskCalled /\ CardNumberGiven) =>
        /\ Len(OriginalNumber) = 16 =>
              OnlyLast4Visible /\ Len(MaskedNumber) >= Len(OriginalNumber)
        /\ Len(OriginalNumber) >= 13 => Len(MaskedNumber) >= 8

\* C29: a card number of 4 or more digits is masked to 8 characters, four
\* mask characters and its last 4 digits, so the masked string of a 16-digit
\* number is shorter than the original; a number of 13 or more digits is
\* masked to no fewer than 8 characters.
C29_MaskIsEightCharacters ==
    (MaskCalled /\ CardNumberGiven) =>
        /\ Len(OriginalNumber) >= 4 =>
              /\ OnlyLast4Visible
              /\ Len(MaskedNumber) = 8
              /\ SubSeq(MaskedNumber, 1, 4) = "****"
        /\ Len(OriginalNumber) = 16 => Len(MaskedNumber) < Len(OriginalNumber)
        /\ Len(OriginalNumber) >= 13 => Len(MaskedNumber) >= 8

C29_Witness ==
    /\ MaskCalled
    /\ CardNumberGiven
    /\ OriginalNumber = "4000020951595032"
    /\ MaskedNumber = "****5032"

\* The text calculateChecksumForEndpoint is to digest: for each checksum
\* field in order the secret, the value of a request field that is present,
\* or nothing.
RECURSIVE ExpectedText(_)
ExpectedText(fields) ==
    IF fields = <<>> THEN ""
    ELSE LET name == Head(fields).name
             text == IF name = "merchantSecretKey" THEN lastCall.merchantSecretKey.s
                     ELSE IF /\ name \in DOMAIN lastCall.requestData
                             /\ lastCall.requestData[name].ty = "string"
                          THEN lastCall.requestData[name].s
                     ELSE ""
         IN  text \o ExpectedText(Tail(fields))

\* C30: calculateChecksumForEndpoint returns the digest of the concatenation,
\* in the order of the registry's checksumFields, of the secret, of the value
\* of each request field that is present and of the empty string for each
\* field that is missing; a second call with the same arguments returns the
\* same.
C30_DigestOfFieldsInRegistryOrder ==
    (ForEndpointCalled /\ ~lastCall.result.threw) =>
        /\ lastCall.result.value =
              (IF lastCall.algorithm = "SHA256" THEN "sha256(" ELSE "sha1(")
              \o ExpectedText(ENDPOINT_SPECS[RegistryKey(lastCall.endpointName)].checksumFields)
              \o ")"
        /\ lastCall.again = lastCall.result

C30_Witness ==
    /\ ForEndpointCalled
    /\ lastCall.endpointName = "settleTransaction"
    /\ lastCall.requestData = Without(FullData, {"authCode"})
    /\ lastCall.again = lastCall.result
    /\ lastCall.result =
          Returned("sha256(m-1s-1REQ_1ord-110.00EURtx-1noteurls20260101120000key-1)")


(***************************************************************************)
(* The classification, the failure path and the context of executeStep.    *)
(***************************************************************************)

\* The last executeStep call answered a JSON object.
StepAnswered == lastCall.fn = "executeStep" /\ lastCall.outcome.kind = "object"

\* The last executeStep call had its fetch or its response.json() reject.
StepCallFailed ==
    lastCall.fn = "executeStep" /\ lastCall.outcome.kind \in {"transportError", "notJson"}

ErrorSignal(body) == Get(body, "status") = Str("ERROR") \/ Truthy(Get(body, "errCode"))

\* C31: a step is classified 'redirect' if and only if the body carries no
\* error signal (status 'ERROR' or a truthy errCode), transactionStatus is
\* 'REDIRECT' and acsUrl and cReq are both there with a non-empty value; with
\* an error signal the step is classified 'error', and with one of the two
\* missing or empty it is 'success' or 'error', never 'redirect'.
C31_RedirectIffBothNonEmpty ==
    StepAnswered =>
        LET body == lastCall.outcome.body
            status == lastCall.done.result.status
        IN  /\ status = "redirect"
                 <=> ( /\ ~ErrorSignal(body)
                       /\ Get(body, "transactionStatus") = Str("REDIRECT")
                       /\ Truthy(Get(body, AcsUrlPath))
                       /\ Truthy(Get(body, CReqPath)) )
            /\ ErrorSignal(body) => status = "error"
            /\ (~Truthy(Get(body, AcsUrlPath)) \/ ~Truthy(Get(body, CReqPath)))
                  => status \in {"success", "error"}

\* A REDIRECT answer without error signal whose acsUrl is empty and whose cReq
\* is there was classified success.
C31_Witness ==
    /\ StepAnswered
    /\ Get(lastCall.outcome.body, "transactionStatus") = Str("REDIRECT")
    /\ Get(lastCall.outcome.body, AcsUrlPath) = Str("")
    /\ Get(lastCall.outcome.body, CReqPath) = Str("creq-token")
    /\ ~ErrorSignal(lastCall.outcome.body)
    /\ lastCall.done.result.status = "success"

\* C32: when the HTTP call of a step fails (fetch rejects, or the body is not
\* JSON) executeStep does not throw; it returns status 'error', response status
\* 0, the error text in the response body and the context it was given, and
\* executeScenario ends 'failed' at that step.
C32_FailedCallIsErrorStep ==
    StepCallFailed =>
        /\ ~lastCall.done.threw
        /\ pc # "thrown"
        /\ lastCall.done.result.status = "error"
        /\ lastCall.done.result.httpStatus = 0
        /\ lastCall.done.result.body =
              Put(EmptyObject, "error", Str(ErrorText(lastCall.outcome.kind)))
        /\ lastCall.done.updatedContext = lastCall.context
        /\ context = lastCall.context
        /\ steps # <<>>
        /\ steps[Len(steps)] = lastCall.done.result
        /\ Len(gatewayCalls) = Len(steps)
        /\ finalStatus = "failed"
        /\ halted
        /\ pc = "done" => (runResult.status = "failed" /\ runResult.steps = steps)

\* A run whose second step got a non-JSON body has returned 'failed'.
C32_Witness ==
    /\ StepCallFailed
    /\ lastCall.outcome.kind = "notJson"
    /\ pc = "done"
    /\ Len(steps) = 2
    /\ runResult.status = "failed"
    /\ "sessionToken" \in DOMAIN context

\* Key k of the context was written by a contextWrites rule of the step whose
\* response path resolved to a defined value.
WrittenByRule(step, body, k) ==
    \E i \in 1..Len(step.contextWrites) :
        /\ step.contextWrites[i][2] = k
        /\ ExtractFromResponse(body, step.contextWrites[i][1]) # Undefined

\* C35: the context an executeStep call returns has every key of the context it
\* was given, and a key is new or has a new value only through a contextWrites
\* rule whose response path resolved to a defined value, or as acsUrl / cReq of
\* a step classified redirect; the run context is the returned one.
C35_ContextOnlyGrows ==
    (lastCall.fn = "executeStep" /\ ~lastCall.done.threw) =>
        LET given == lastCall.context
            after == lastCall.done.updatedContext
        IN  /\ DOMAIN given \subseteq DOMAIN after
            /\ context = after
            /\ \A k \in DOMAIN after :
                  (k \notin DOMAIN given \/ after[k] # given[k])
                      => \/ /\ lastCall.outcome.kind = "object"
                            /\ WrittenByRule(lastCall.step, lastCall.outcome.body, k)
                         \/ /\ lastCall.done.result.status = "redirect"
                            /\ k \in {"acsUrl", "cReq"}

\* The third step wrote paymentTransactionId but, the response carrying no
\* authCode, not authCode; the keys of the earlier steps are still there.
C35_Witness ==
    /\ StepAnswered
    /\ lastCall.step.id = "payment"
    /\ "paymentTransactionId" \in DOMAIN context
    /\ "authCode" \notin DOMAIN context
    /\ "sessionToken" \in DOMAIN context
    /\ "initPaymentTransactionId" \in DOMAIN context
    /\ "paymentTransactionId" \notin DOMAIN lastCall.context


\* seq is a prefix of full.
IsPrefix(seq, full) == Len(seq) <= Len(full) /\ seq = SubSeq(full, 1, Len(seq))

\* C33: handle3DSPayment issues getSessionToken, initPayment, payment.do in
\* that order, each at most once; initPayment only after getSessionToken
\* answered SUCCESS and payment.do only after initPayment answered SUCCESS;
\* payment.do carries the sessionToken of the first answer and, as
\* relatedTransactionId, the transactionId of the second; a returned steps list
\* is a non-empty prefix of getSessionToken, initPayment, payment.
C33_CallsInOrderOnSuccess ==
    invocation.handler = "handle3DSPayment" =>
        LET sent == invocation.outbound
            reply == invocation.reply
        IN  /\ IsPrefix([i \in 1..Len(sent) |-> sent[i].endpoint],
                        <<"getSessionToken", "initPayment", "payment.do">>)
            /\ Len(sent) >= 2 => Succeeded(1)
            /\ Len(sent) >= 3 => Succeeded(2)
            /\ Len(sent) = 3 =>
                  /\ Get(sent[3].body, "sessionToken")
                        = Get(invocation.gateway[1].body, "sessionToken")
                  /\ Get(sent[3].body, "relatedTransactionId")
                        = Get(invocation.gateway[2].body, "transactionId")
            /\ reply.http = 200 =>
                  /\ reply.steps # <<>>
                  /\ IsPrefix(StepIds(reply.steps), <<"getSessionToken", "initPayment", "payment">>)
                  /\ Len(reply.steps) = Len(sent)

\* A flow stopped after initPayment answered ERROR: two calls, two steps; and
\* the state is one of a run where payment.do would have carried st-1.
C33_Witness ==
    /\ invocation.handler = "handle3DSPayment"
    /\ Len(invocation.outbound) = 2
    /\ Succeeded(1)
    /\ ~Succeeded(2)
    /\ invocation.gateway[2].kind = "object"
    /\ StepIds(invocation.reply.steps) = <<"getSessionToken", "initPayment">>
    /\ Get(invocation.outbound[2].body, "sessionToken") = Str("st-1")

\* The flow status of the last reply of handle3DSPayment.
FlowStatus == Get(invocation.reply.fields, "status")

LastStepStatus == invocation.reply.steps[Len(invocation.reply.steps)].status

\* C34: in every response of handle3DSPayment the flow status agrees with the
\* step statuses: 'completed' only if no step is error or redirect,
\* 'challenge_required' exactly when the last step is redirect, 'failed' only
\* if the last step is error.
C34_FlowStatusAgreesWithSteps ==
    (invocation.handler = "handle3DSPayment" /\ invocation.reply.http = 200) =>
        /\ FlowStatus = Str("completed")
              => \A i \in 1..Len(invocation.reply.steps) :
                    invocation.reply.steps[i].status \notin {"error", "redirect"}
        /\ FlowStatus = Str("challenge_required") <=> LastStepStatus = "redirect"
        /\ FlowStatus = Str("failed") => LastStepStatus = "error"


\* The values of the declared checksum fields as the sent body holds them, the
\* merchant key standing in for the 'merchantKey' sentinel.
SentChecksumValues(checksumFields, sent, ctx) ==
    [i \in 1..Len(checksumFields) |->
        IF checksumFields[i] = "merchantKey" THEN Get(ctx, "env.merchantKey")
        ELSE Get(sent, checksumFields[i])]

CresUndecodable(req) ==
    LET cres == Get(FormParse(req.text), "cres")
    IN  /\ req.method = "POST"
        /\ IsFormContentType(req.contentType)
        /\ Truthy(cres)
        /\ ~Atob(Base64UrlToStd(cres.s)).ok

\* C37: a form-encoded webhook POST whose cres does not base64-decode still
\* stores one record; the record keeps the raw cres and every other field
\* sent, carries cresDecodeError, and has no decoded text, message type or
\* error message taken from the cres.
C37_UndecodableCresStored ==
    [][ ( /\ clock' # clock
          /\ response'.handler = "handleWebhook"
          /\ CresUndecodable(request') ) =>
            LET sent == FormParse(request'.text)
                stored == webhookStore'[1].payload.fields
            IN  /\ inserted' = Append(inserted, webhookStore'[1])
                /\ Len(webhookStore') = IF Len(webhookStore) < WebhookCapacity
                                        THEN Len(webhookStore) + 1 ELSE WebhookCapacity
                /\ \A k \in DOMAIN sent : Get(stored, k) = sent[k]
                /\ Get(stored, "cresDecodeError") = Str("Failed to decode base64")
                /\ \A k \in {"cresDecoded", "cresDecodedText", "messageType", "errorMessage",
                             "transStatus"} : k \notin DOMAIN stored ]_vars

C37_Witness ==
    /\ response.handler = "handleWebhook"
    /\ CresUndecodable(request)
    /\ webhookStore # <<>>
    /\ Get(webhookStore[1].payload.fields, "cres") = Str(CresBadB64)
    /\ Get(webhookStore[1].payload.fields, "TransactionID") = Str("tx2")
    /\ "cresDecodeError" \in DOMAIN webhookStore[1].payload.fields
    /\ "errorMessage" \notin DOMAIN webhookStore[1].payload.fields


\* C38: for one flow that ended in challenge_required the client issues the
\* liability-shift call at most once, also when several '3ds-complete' messages
\* reporting success arrive before the first call has returned.
C38_LiabilityShiftAtMostOnce ==
    \A i \in 1..Len(posts) : \A j \in 1..Len(posts) :
        Get(posts[i], "sessionToken") = Get(posts[j], "sessionToken") => i = j


\* The cres the last /api/3ds-notify request carried, as the route reads it.
NotifiedCres == Get(NotifyPayload(request).fields, "cres")

\* The request carried a cres that base64-decodes to JSON whose transStatus is
\* 'Y' or 'A'.
CresAuthenticated ==
    /\ NotifiedCres.ty = "string"
    /\ NotifiedCres.s # ""
    /\ Atob(Base64UrlToStd(NotifiedCres.s)).ok
    /\ CresParse(Atob(Base64UrlToStd(NotifiedCres.s)).text).kind = "object"
    /\ Get(CresParse(Atob(Base64UrlToStd(NotifiedCres.s)).text).fields, "transStatus")
          \in {Str("Y"), Str("A")}

\* C39: /api/3ds-notify reports success in its '3ds-complete' message only if
\* the request carried a cres that base64-decodes to JSON whose transStatus is
\* 'Y' or 'A'; without a cres, or with one that cannot be decoded, it never
\* reports success.
C39_SuccessOnlyForAuthenticatedCres ==
    (lastCall.fn = "3ds-notify" /\ lastCall.success) => CresAuthenticated

\* C40: for every request to /api/3ds-notify the threeDSResult of the page has
\* messageType 'Error' if and only if the record stored through handleWebhook
\* for the same request is classified '3DS Error'.
C40_PopupAgreesWithRecord ==
    (lastCall.fn = "3ds-notify" /\ lastCall.stored) =>
        (Get(lastCall.threeDSResult, "messageType") = Str("Error")
            <=> DmnTypeOf(webhookStore[1]) = Str("3DS Error"))

============================================================================
